---- MODULE Spec2Model ----
(***************************************************************************)
(* Model of the scrollytelling choreography engine: the schema validator   *)
(* (section-schema.js), the section builder (section-builder.js), the      *)
(* layer renderers (section-renderer.js), the hero overlap validator       *)
(* (section-validator.js) and the scroll timing calculus                   *)
(* (scroll-timing.js).                                                     *)
(*                                                                         *)
(* Conventions.                                                            *)
(*   - An optional JavaScript value is a sequence: <<>> is undefined/null  *)
(*     (or NaN for a number), <<v>> is the value v.                        *)
(*   - A layer's z is kept in half units (z = 3.5 is <<7>>), so that the   *)
(*     non-integer depths JavaScript admits are part of the model.         *)
(*   - A thrown exception is the field threw = TRUE of a result.           *)
(***************************************************************************)
EXTENDS Integers, Sequences, FiniteSets, TLC

VARIABLES
    pc,          \* position of the page script / of the function under study
    schema,      \* the scene description handed to validateSchema
    validation,  \* what validateSchema produced
    body,        \* document.body's children appended by buildSection
    containers,  \* the .fullscreen-section containers inserted in the page
    window,      \* window.innerWidth and window.innerHeight, in px
    args,        \* the arguments of the pure function under study
    ret          \* what that function returned

vars == <<pc, schema, validation, body, containers, window, args, ret>>

(***************************************************************************)
(* Bounds of the scene descriptions explored.                              *)
(***************************************************************************)
MaxSections == 2
MaxLayers == 2

Half(n) == 2 * n

Some(v) == <<v>>
None == <<>>

(***************************************************************************)
(* Scene descriptions.                                                     *)
(***************************************************************************)
NullValue == [kind |-> "null"]

Layer(type, z, src, renderer, position, size) ==
    [kind |-> "object", type |-> type, z |-> z, src |-> src,
     renderer |-> renderer, position |-> position, size |-> size]

\* a CSS length as the schema writes it: '40%', '120px', '25vw', 'auto'
Css(n, unit) == [n |-> n, unit |-> unit]
Auto == Css(0, "auto")

\* position: { top, right, bottom, left }, each optional
Position(top, right, bottom, left) ==
    [top |-> top, right |-> right, bottom |-> bottom, left |-> left]

TopLeft(t, l) == Position(Some(Css(t, "%")), None, None, Some(Css(l, "%")))

\* size: { width, height }, each optional
Size(width, height) == [width |-> width, height |-> height]

SomePosition == TopLeft(40, 50)

\* The layers a scene may hold: for each rule of the validator one that
\* breaks it and one that keeps it, with depths below, at and above the
\* ceiling, absent and non-integer.
LayerMenu ==
    { Layer("background", Some(Half(0)), FALSE, "", None, None),
      Layer("background", Some(Half(51)), FALSE, "", None, None),
      Layer("image", Some(Half(-1)), TRUE, "", Some(SomePosition), None),
      Layer("image", Some(Half(50)), FALSE, "", Some(SomePosition), None),
      Layer("image", Some(7), TRUE, "", None, None),
      Layer("custom", None, FALSE, "checklist", None, None),
      Layer("custom", Some(Half(2)), FALSE, "challenge-cards", None, None),
      Layer("custom", Some(101), FALSE, "", None, None),
      Layer("custom", Some(Half(50)), FALSE, "nautical-theme", None, None),
      Layer("video", Some(Half(1)), FALSE, "", None, None),
      NullValue }

Section(id, hero, layers) ==
    [kind |-> "object", id |-> id, hero |-> hero, layers |-> layers]

NoLayers == [kind |-> "missing", items |-> <<>>]
NotAnArray == [kind |-> "notArray", items |-> <<>>]
LayerArray(items) == [kind |-> "array", items |-> items]

\* hero: { text, fontSize }.  The text is kept as its number of lines (the
\* count of <br> plus one), <<>> when it is missing or empty; the font size
\* is optional.
Hero(text, fontSize) == [text |-> text, fontSize |-> fontSize]

PlainHero == Some(Hero(Some(1), None))

\* The sections a scene may declare as its entry number id, before their
\* layers are declared: the well-formed one, one per required field that is
\* missing or malformed, and a null entry.
SectionMenu(id) ==
    { Section(Some(id), PlainHero, LayerArray(<<>>)),
      Section(None, PlainHero, LayerArray(<<>>)),
      Section(Some(id), None, LayerArray(<<>>)),
      Section(Some(id), Some(Hero(None, None)), LayerArray(<<>>)),
      Section(Some(id), PlainHero, NoLayers),
      Section(Some(id), PlainHero, NotAnArray),
      NullValue }

SchemaArray(sections) == [kind |-> "array", sections |-> sections]

RECURSIVE CountLayers(_, _)
CountLayers(sections, k) ==
    IF k > Len(sections) THEN 0
    ELSE (IF sections[k].kind = "object" THEN Len(sections[k].layers.items) ELSE 0)
         + CountLayers(sections, k + 1)

(***************************************************************************)
(* validateSchema (section-schema.js).                                     *)
(***************************************************************************)
MAX_Z == 50

LayerTypes == { "background", "image", "custom" }

Err(idx, layerIdx, rule) == [section |-> idx, layer |-> layerIdx, rule |-> rule]

\* the ceiling test off by one: layer.z > 51
ExceedsMaxZ_OffByOne(layer) == layer.z # None /\ layer.z[1] > Half(MAX_Z + 1)

\* layer.z > 50; undefined > 50 is false
ExceedsMaxZ(layer) == layer.z # None /\ layer.z[1] > Half(MAX_Z)

\* the errors one layer contributes, in the order the code pushes them
LayerErrors(layer, idx, layerIdx) ==
    (IF ExceedsMaxZ(layer)
        THEN << Err(idx, Some(layerIdx), "z-index exceeds max of 50") >>
        ELSE <<>>)
    \o (IF layer.type \notin LayerTypes
        THEN << Err(idx, Some(layerIdx), "invalid layer type") >>
        ELSE <<>>)
    \o (IF layer.type = "image" /\ ~layer.src
        THEN << Err(idx, Some(layerIdx), "image layer missing src") >>
        ELSE <<>>)
    \o (IF layer.type = "custom" /\ layer.renderer = ""
        THEN << Err(idx, Some(layerIdx), "custom layer missing renderer name") >>
        ELSE <<>>)

\* SectionErrors without the test of section.id
SectionErrors_IdUnchecked(section, idx) ==
    (IF section.hero = None
        THEN << Err(idx, None, "missing hero config") >> ELSE <<>>)
    \o (IF section.hero = None \/ section.hero[1].text = None
        THEN << Err(idx, None, "hero missing text") >> ELSE <<>>)
    \o (IF section.layers.kind # "array"
        THEN << Err(idx, None, "missing or invalid layers array") >> ELSE <<>>)

\* the errors of the section's required fields, in the order the code pushes
SectionErrors(section, idx) ==
    (IF section.id = None THEN << Err(idx, None, "missing id") >> ELSE <<>>)
    \o (IF section.hero = None
        THEN << Err(idx, None, "missing hero config") >> ELSE <<>>)
    \o (IF section.hero = None \/ section.hero[1].text = None
        THEN << Err(idx, None, "hero missing text") >> ELSE <<>>)
    \o (IF section.layers.kind # "array"
        THEN << Err(idx, None, "missing or invalid layers array") >> ELSE <<>>)

Threw == [threw |-> TRUE, valid |-> FALSE, errors |-> <<>>]

\* section.layers?.forEach((layer, layerIdx) => ...): reading layer.z of a
\* null entry raises a TypeError
RECURSIVE ValidateLayers(_, _, _, _)
ValidateLayers(items, idx, k, errors) ==
    IF k > Len(items) THEN [threw |-> FALSE, errors |-> errors]
    ELSE IF items[k].kind = "null" THEN [threw |-> TRUE, errors |-> errors]
    ELSE ValidateLayers(items, idx, k + 1,
                        errors \o LayerErrors(items[k], idx, k - 1))

\* one iteration of schema.sections.forEach((section, idx) => ...)
ValidateSection(section, idx, errors) ==
    IF section.kind = "null" THEN [threw |-> TRUE, errors |-> errors]
    ELSE LET own == errors \o SectionErrors(section, idx)
         IN  CASE section.layers.kind = "missing" ->
                      [threw |-> FALSE, errors |-> own]
               [] section.layers.kind = "notArray" ->
                      \* ?. guards null and undefined only: forEach is not a
                      \* function of any other value, and calling it raises
                      [threw |-> TRUE, errors |-> own]
               [] OTHER ->
                      ValidateLayers(section.layers.items, idx, 1, own)

RECURSIVE ValidateSections(_, _, _)
ValidateSections(sections, k, errors) ==
    IF k > Len(sections) THEN [threw |-> FALSE, errors |-> errors]
    ELSE LET r == ValidateSection(sections[k], k - 1, errors)
         IN  IF r.threw THEN r ELSE ValidateSections(sections, k + 1, r.errors)

validateSchema(s) ==
    IF s.kind # "array"
    THEN [threw |-> FALSE, valid |-> FALSE,
          errors |-> << Err(-1, None, "Schema must have a sections array") >>]
    ELSE LET r == ValidateSections(s.sections, 1, <<>>)
         IN  IF r.threw THEN Threw
             ELSE [threw |-> FALSE, valid |-> Len(r.errors) = 0,
                   errors |-> r.errors]

(***************************************************************************)
(* The layer renderers (section-renderer.js).  An element is what the code *)
(* writes: its tag, its className, its data-section and the z-index of its *)
(* cssText (half units, like a layer's z).                                 *)
(***************************************************************************)
HERO_Z == 100
CARDS_Z == 150

Element(tag, className, section, zIndex) ==
    [tag |-> tag, className |-> className, section |-> section, zIndex |-> zIndex]

\* document.createElement('div'), returned for what has no renderer
BlankDiv == Element("div", "", None, None)

\* ${layer.z || d}: undefined and 0 are falsy
ZOr(z, d) == IF z = None \/ z[1] = 0 THEN Half(d) ELSE z[1]

CustomRendererNames ==
    { "starfield", "tangled-arrows", "challenge-cards", "checklist",
      "jetty-method-title" }

\* customRenderers[name](config, container, z)
customRenderers(name, sectionId, z) ==
    CASE name = "starfield" ->
             Element("div", "visual-container starfield", None, Some(z))
      [] name = "tangled-arrows" ->
             Element("div", "visual-container", None, Some(z))
      [] name = "challenge-cards" ->
             Element("div", "visual-container challenge-cards", sectionId,
                     Some(Half(CARDS_Z)))
      [] name = "checklist" ->
             Element("div", "visual-container checklist", sectionId, Some(z))
      [] name = "jetty-method-title" ->
             Element("div", "visual-container jetty-method-title", sectionId,
                     Some(z))

Rendered(el) == [threw |-> FALSE, el |-> el]
RenderThrew == [threw |-> TRUE, el |-> BlankDiv]

\* renderLayer(layer, container) with the renderers it dispatches to;
\* sectionId is container.dataset.sectionId
renderLayer(layer, sectionId) ==
    IF layer.kind = "null" THEN RenderThrew                \* null.type
    ELSE CASE layer.type = "background" ->
                  Rendered(Element("div", "section-background", sectionId,
                                   Some(ZOr(layer.z, 0))))
           [] layer.type = "image" ->
                  IF layer.position = None
                  THEN RenderThrew                         \* undefined.left
                  ELSE Rendered(Element("img", "", None, Some(ZOr(layer.z, 1))))
           [] layer.type = "custom" ->
                  IF layer.renderer \notin CustomRendererNames
                  THEN Rendered(BlankDiv)
                  ELSE Rendered(customRenderers(layer.renderer, sectionId,
                                                ZOr(layer.z, 1)))
           [] OTHER -> Rendered(BlankDiv)

(***************************************************************************)
(* buildSection, buildAllSections (section-builder.js).                    *)
(***************************************************************************)
Container(id) == Element("div", "fullscreen-section", id, None)

\* the hero content container
ContentContainer(id) == Element("div", "section-content", id, Some(Half(HERO_Z)))

IsBackground(el) == el.className = "section-background"

\* section.layers.forEach(layer => layerElements.push(renderLayer(...)))
RECURSIVE RenderLayers(_, _, _, _)
RenderLayers(items, sectionId, k, els) ==
    IF k > Len(items) THEN [threw |-> FALSE, els |-> els]
    ELSE LET r == renderLayer(items[k], sectionId)
         IN  IF r.threw THEN [threw |-> TRUE, els |-> els]
             ELSE RenderLayers(items, sectionId, k + 1, Append(els, r.el))

\* the elements among els[k..] that pass keep, in order
RECURSIVE Backgrounds(_, _)
Backgrounds(els, k) ==
    IF k > Len(els) THEN <<>>
    ELSE (IF IsBackground(els[k]) THEN << els[k] >> ELSE <<>>)
         \o Backgrounds(els, k + 1)

\* the other layer elements, each tagged with the section it belongs to
RECURSIVE Visuals(_, _, _)
Visuals(els, id, k) ==
    IF k > Len(els) THEN <<>>
    ELSE (IF IsBackground(els[k]) THEN <<>>
          ELSE << [els[k] EXCEPT !.section = id] >>)
         \o Visuals(els, id, k + 1)

BuildThrew == [threw |-> TRUE, appended |-> <<>>, container |-> BlankDiv]

\* buildSection(section): what it appends to document.body and the
\* container it returns; a throw happens before anything is appended
buildSection(section) ==
    IF section.kind = "null" THEN BuildThrew               \* null.id
    ELSE IF section.layers.kind # "array" THEN BuildThrew  \* no forEach
    ELSE LET r == RenderLayers(section.layers.items, section.id, 1, <<>>)
         IN  IF r.threw THEN BuildThrew
             ELSE IF section.hero = None THEN BuildThrew   \* undefined.top
             ELSE [threw |-> FALSE,
                   appended |-> Backgrounds(r.els, 1)
                                \o Visuals(r.els, section.id, 1)
                                \o << ContentContainer(section.id) >>,
                   container |-> Container(section.id)]

\* schema.sections.map(buildSection): the body after the sections built so
\* far, and their containers
RECURSIVE BuildSections(_, _, _, _)
BuildSections(sections, k, appended, built) ==
    IF k > Len(sections)
    THEN [threw |-> FALSE, body |-> appended, containers |-> built]
    ELSE LET r == buildSection(sections[k])
         IN  IF r.threw
             THEN [threw |-> TRUE, body |-> appended, containers |-> <<>>]
             ELSE BuildSections(sections, k + 1, appended \o r.appended,
                                Append(built, r.container))

buildAllSections(s) ==
    IF s.kind # "array"
    THEN [threw |-> TRUE, body |-> <<>>, containers |-> <<>>]  \* no map
    ELSE BuildSections(s.sections, 1, <<>>, <<>>)

(***************************************************************************)
(* Hero zone overlap validation (section-validator.js).                    *)
(*                                                                         *)
(* A pixel quantity is an optional integer in 1/1000 px: <<>> is NaN, and  *)
(* a comparison with NaN is false.  The quantities the code derives from   *)
(* whole viewport sizes, whole percentages and whole px are whole numbers  *)
(* of 1/1000 px, so the model's arithmetic is exact.                       *)
(***************************************************************************)
Px(n) == Some(n * 1000)
NaN == None

Plus(a, b) == IF a = NaN \/ b = NaN THEN NaN ELSE Some(a[1] + b[1])
Minus(a, b) == IF a = NaN \/ b = NaN THEN NaN ELSE Some(a[1] - b[1])
Less(a, b) == a # NaN /\ b # NaN /\ a[1] < b[1]
Greater(a, b) == a # NaN /\ b # NaN /\ a[1] > b[1]

HERO_MAX_WIDTH == 1000
HERO_PADDING == 40
DEFAULT_FONT_PX == 80
DEFAULT_FONT_VW == 6
DEFAULT_IMAGE_SIZE == 100

\* a font size is 'clamp(a, <vw>vw, b)', kept as its middle term, or a
\* plain size that holds no clamp
Clamp(vw) == [clamp |-> TRUE, vw |-> vw]
PlainSize == [clamp |-> FALSE, vw |-> 0]

Min(a, b) == IF a < b THEN a ELSE b

\* calculateHeroBounds that leaves the container's padding out of its height
calculateHeroBounds_NoPadding(heroConfig) ==
    LET viewportWidth == window.innerWidth
        viewportHeight == window.innerHeight
        fontSize == IF heroConfig.fontSize = None
                    THEN Clamp(DEFAULT_FONT_VW)
                    ELSE heroConfig.fontSize[1]
        estimatedFontSize == IF fontSize.clamp
                             THEN viewportWidth * fontSize.vw * 10
                             ELSE DEFAULT_FONT_PX * 1000
        containerHeight == heroConfig.text[1] * ((estimatedFontSize * 12) \div 10)
        containerWidth ==
            Min(HERO_MAX_WIDTH + HERO_PADDING * 2, viewportWidth) * 1000
    IN  [top |-> Some(viewportHeight * 500 - containerHeight \div 2),
         left |-> Some(viewportWidth * 500 - containerWidth \div 2),
         bottom |-> Some(viewportHeight * 500 + containerHeight \div 2),
         right |-> Some(viewportWidth * 500 + containerWidth \div 2),
         width |-> Some(containerWidth),
         height |-> Some(containerHeight)]

\* calculateHeroBounds(heroConfig)
calculateHeroBounds(heroConfig) ==
    LET viewportWidth == window.innerWidth
        viewportHeight == window.innerHeight
        fontSize == IF heroConfig.fontSize = None
                    THEN Clamp(DEFAULT_FONT_VW)
                    ELSE heroConfig.fontSize[1]
        lineCount == heroConfig.text[1]
        \* (viewportWidth * vwValue) / 100, in 1/1000 px
        estimatedFontSize == IF fontSize.clamp
                             THEN viewportWidth * fontSize.vw * 10
                             ELSE DEFAULT_FONT_PX * 1000
        lineHeight == (estimatedFontSize * 12) \div 10
        estimatedHeight == lineCount * lineHeight
        containerWidth ==
            Min(HERO_MAX_WIDTH + HERO_PADDING * 2, viewportWidth) * 1000
        containerHeight == estimatedHeight + HERO_PADDING * 2 * 1000
    IN  [top |-> Some(viewportHeight * 500 - containerHeight \div 2),
         left |-> Some(viewportWidth * 500 - containerWidth \div 2),
         bottom |-> Some(viewportHeight * 500 + containerHeight \div 2),
         right |-> Some(viewportWidth * 500 + containerWidth \div 2),
         width |-> Some(containerWidth),
         height |-> Some(containerHeight)]

\* parsePosition(value, containerSize), containerSize in px
parsePosition(value, containerSize) ==
    CASE value.unit = "%" -> Some(value.n * containerSize * 10)
      [] value.unit = "px" -> Px(value.n)
      [] value.unit = "vh" -> Some(value.n * window.innerHeight * 10)
      [] value.unit = "vw" -> Some(value.n * window.innerWidth * 10)
      [] value.unit = "" -> Px(value.n)        \* parseFloat('120')
      [] OTHER -> NaN                          \* parseFloat('auto')

\* calculateImageBounds(layer): <<>> for null, else <<bounds>>
calculateImageBounds(layer) ==
    LET viewportWidth == window.innerWidth
        viewportHeight == window.innerHeight
        pos == layer.position[1]
        hasTop == pos.top # None
        hasLeft == pos.left # None
        hasRight == pos.right # None
        hasBottom == pos.bottom # None
        top == parsePosition(pos.top[1], viewportHeight)
        left == parsePosition(pos.left[1], viewportWidth)
        right == parsePosition(pos.right[1], viewportWidth)
        bottom == parsePosition(pos.bottom[1], viewportHeight)
        width == IF layer.size # None /\ layer.size[1].width # None
                 THEN parsePosition(layer.size[1].width[1], viewportWidth)
                 ELSE Px(DEFAULT_IMAGE_SIZE)
        height == IF layer.size # None /\ layer.size[1].height # None
                  THEN parsePosition(layer.size[1].height[1], viewportHeight)
                  ELSE Px(DEFAULT_IMAGE_SIZE)
        \* the bottom offset, when given, overrides what top set
        boundsBottom == IF hasBottom THEN Minus(Px(viewportHeight), bottom)
                        ELSE Plus(top, height)
        boundsTop == IF hasBottom THEN Minus(boundsBottom, height) ELSE top
        boundsRight == IF hasRight THEN Minus(Px(viewportWidth), right)
                       ELSE Plus(left, width)
        boundsLeft == IF hasRight THEN Minus(boundsRight, width) ELSE left
    IN  IF (hasTop \/ hasBottom) /\ (hasLeft \/ hasRight)
        THEN Some([top |-> boundsTop, left |-> boundsLeft,
                   bottom |-> boundsBottom, right |-> boundsRight,
                   width |-> width, height |-> height])
        ELSE None

\* boxesOverlap with the edges excluded: boxes that only touch are apart
boxesOverlap_EdgesExcluded(box1, box2) ==
    ~ ( \/ ~Greater(box1.right, box2.left)
        \/ ~Less(box1.left, box2.right)
        \/ ~Greater(box1.bottom, box2.top)
        \/ ~Less(box1.top, box2.bottom) )

\* boxesOverlap(box1, box2)
boxesOverlap(box1, box2) ==
    ~ ( \/ Less(box1.right, box2.left)
        \/ Greater(box1.left, box2.right)
        \/ Less(box1.bottom, box2.top)
        \/ Greater(box1.top, box2.bottom) )

Warning(idx, kind) == [layer |-> idx, kind |-> kind]

\* LayerWarnings that treats a positioned custom layer like an image and
\* warns only about the custom layers it cannot measure
LayerWarnings_CustomMeasured(layer, idx, heroBounds) ==
    IF layer.type \in { "image", "custom" } /\ layer.position # None
    THEN LET imageBounds == calculateImageBounds(layer)
         IN  IF imageBounds # None /\ boxesOverlap(heroBounds, imageBounds[1])
             THEN << Warning(idx, "may overlap hero text") >>
             ELSE <<>>
    ELSE IF layer.type = "custom"
         THEN << Warning(idx, "cannot be validated automatically") >>
         ELSE <<>>

\* the warnings one layer contributes: the body of
\* section.layers.forEach((layer, idx) => ...) in validateHeroOverlap
LayerWarnings(layer, idx, heroBounds) ==
    (IF layer.type = "image" /\ layer.position # None
     THEN LET imageBounds == calculateImageBounds(layer)
          IN  IF imageBounds # None /\ boxesOverlap(heroBounds, imageBounds[1])
              THEN << Warning(idx, "may overlap hero text") >>
              ELSE <<>>
     ELSE <<>>)
    \o (IF layer.type = "custom"
        THEN << Warning(idx, "cannot be validated automatically") >>
        ELSE <<>>)

RECURSIVE OverlapWarnings(_, _, _)
OverlapWarnings(items, k, heroBounds) ==
    IF k > Len(items) THEN <<>>
    ELSE LayerWarnings(items[k], k - 1, heroBounds)
         \o OverlapWarnings(items, k + 1, heroBounds)

\* validateHeroOverlap(section)
validateHeroOverlap(section) ==
    LET heroBounds == calculateHeroBounds(section.hero[1])
        warnings == OverlapWarnings(section.layers.items, 1, heroBounds)
    IN  [valid |-> Len(warnings) = 0, warnings |-> warnings]

NoWindow == [innerWidth |-> 0, innerHeight |-> 0]

NoValidation == [threw |-> FALSE, valid |-> FALSE, errors |-> <<>>]

\* A scene is static configuration: { sections: [...] }, or an object whose
\* sections field is missing or is no array.
Init ==
    /\ pc = "authoring"
    /\ schema \in { SchemaArray(<<>>),
                    [kind |-> "missing", sections |-> <<>>],
                    [kind |-> "notArray", sections |-> <<>>] }
    /\ validation = NoValidation
    /\ body = <<>>
    /\ containers = <<>>
    /\ window = NoWindow
    /\ args = <<>>
    /\ ret = <<>>

\* the author declares one more section
DeclareSection ==
    /\ pc = "authoring"
    /\ schema.kind = "array"
    /\ Len(schema.sections) < MaxSections
    /\ \E s \in SectionMenu(Len(schema.sections) + 1) :
          schema' = SchemaArray(Append(schema.sections, s))
    /\ UNCHANGED <<pc, validation, body, containers, window, args, ret>>

\* the author declares one more layer of the section declared last
DeclareLayer ==
    /\ pc = "authoring"
    /\ schema.kind = "array"
    /\ Len(schema.sections) > 0
    /\ CountLayers(schema.sections, 1) < MaxLayers
    /\ LET n == Len(schema.sections)
           last == schema.sections[n]
       IN  /\ last.kind = "object"
           /\ last.layers.kind = "array"
           /\ \E l \in LayerMenu :
                 schema' = SchemaArray(
                     [schema.sections EXCEPT ![n].layers.items = Append(@, l)])
    /\ UNCHANGED <<pc, validation, body, containers, window, args, ret>>

\* the page script calls validateSchema on the scene
Validate ==
    /\ pc = "authoring"
    /\ validation' = validateSchema(schema)
    /\ pc' = IF validation'.threw THEN "validateThrew" ELSE "validated"
    /\ UNCHANGED <<schema, body, containers, window, args, ret>>

\* The page script renders only a scene that validateSchema accepted.
CallerMayRender == pc = "validated" /\ validation.valid

\* the page script calls buildAllSections on the scene
Render ==
    /\ CallerMayRender
    /\ LET r == buildAllSections(schema)
       IN  /\ body' = r.body
           /\ containers' = r.containers
           /\ pc' = IF r.threw THEN "buildThrew" ELSE "built"
    /\ UNCHANGED <<schema, validation, window, args, ret>>

Next == DeclareSection \/ DeclareLayer \/ Validate \/ Render

Spec == Init /\ [][Next]_vars

RECURSIVE SeqsOfLen(_, _)
SeqsOfLen(S, n) ==
    IF n = 0 THEN { <<>> }
    ELSE { Append(s, x) : s \in SeqsOfLen(S, n - 1), x \in S }

(***************************************************************************)
(* The overlap validator under study: validateHeroOverlap on one section   *)
(* in one viewport, and boxesOverlap on two boxes.                         *)
(***************************************************************************)
MaxCoord == 3

Viewport(w, h) == [innerWidth |-> w, innerHeight |-> h]

\* desktop, large desktop, portrait monitor, phone in landscape, phone in
\* portrait, ultra-wide
WindowSet ==
    { Viewport(1280, 720), Viewport(1920, 1080), Viewport(1080, 1920),
      Viewport(800, 360), Viewport(375, 667), Viewport(3440, 1440) }

OverlapHeroes ==
    { Hero(Some(1), None), Hero(Some(2), None), Hero(Some(1), Some(PlainSize)),
      Hero(Some(1), Some(Clamp(5))) }

ImageAt(position, size) ==
    Layer("image", Some(Half(1)), TRUE, "", position, size)

OverlapLayerMenu ==
    { Layer("background", Some(Half(0)), FALSE, "", None, None),
      ImageAt(Some(TopLeft(40, 50)), Some(Size(Some(Css(25, "vw")), None))),
      ImageAt(Some(TopLeft(5, 5)), Some(Size(Some(Css(25, "vw")), None))),
      ImageAt(Some(TopLeft(40, 50)), Some(Size(Some(Css(25, "vw")), Some(Auto)))),
      ImageAt(Some(TopLeft(5, 5)), Some(Size(Some(Css(120, "px")), Some(Auto)))),
      ImageAt(Some(Position(None, Some(Css(5, "vw")), Some(Css(10, "vh")), None)),
              None),
      ImageAt(Some(Position(Some(Css(40, "%")), None, None, None)), None),
      ImageAt(None, None),
      Layer("custom", Some(Half(2)), FALSE, "checklist", None, None),
      Layer("custom", Some(Half(2)), FALSE, "challenge-cards",
            Some(TopLeft(40, 50)), Some(Size(Some(Css(25, "vw")), None))),
      Layer("custom", None, FALSE, "", Some(TopLeft(5, 5)), None) }

OverlapSections ==
    { Section(Some(1), Some(hero), LayerArray(items)) :
        hero \in OverlapHeroes,
        items \in UNION { SeqsOfLen(OverlapLayerMenu, n) : n \in 0..MaxLayers } }

Box(top, left, bottom, right) ==
    [top |-> Some(top), left |-> Some(left),
     bottom |-> Some(bottom), right |-> Some(right)]

\* the axis-aligned boxes with corners on the grid 0..MaxCoord
BoxSet ==
    UNION { UNION { { Box(t, l, b, r) : b \in t..MaxCoord, r \in l..MaxCoord }
                    : l \in 0..MaxCoord } : t \in 0..MaxCoord }

InitOverlap ==
    /\ pc = "called"
    /\ schema = SchemaArray(<<>>)
    /\ validation = NoValidation
    /\ body = <<>>
    /\ containers = <<>>
    /\ ret = <<>>
    /\ \/ /\ window \in WindowSet
          /\ \E section \in OverlapSections :
                args = [fn |-> "validateHeroOverlap", section |-> section]
       \/ /\ window = NoWindow
          /\ \E box1 \in BoxSet, box2 \in BoxSet :
                args = [fn |-> "boxesOverlap", box1 |-> box1, box2 |-> box2]

CheckOverlap ==
    /\ pc = "called"
    /\ args.fn = "validateHeroOverlap"
    /\ ret' = validateHeroOverlap(args.section)
    /\ pc' = "returned"
    /\ UNCHANGED <<schema, validation, body, containers, window, args>>

CompareBoxes ==
    /\ pc = "called"
    /\ args.fn = "boxesOverlap"
    /\ ret' = boxesOverlap(args.box1, args.box2)
    /\ pc' = "returned"
    /\ UNCHANGED <<schema, validation, body, containers, window, args>>

NextOverlap == CheckOverlap \/ CompareBoxes

SpecOverlap == InitOverlap /\ [][NextOverlap]_vars

(***************************************************************************)
(* What the claims about the validator and the builder speak of.           *)
(***************************************************************************)
\* validateSchema has been called on the scene
Validated == pc \in { "validated", "validateThrew", "built", "buildThrew" }

\* <<i, j>>: entry j of the layers array of section entry i (both from 1)
LayerSlots ==
    IF schema.kind # "array" THEN {}
    ELSE UNION { IF schema.sections[i].kind = "object"
                 THEN { <<i, j>> : j \in 1..Len(schema.sections[i].layers.items) }
                 ELSE {}
                 : i \in 1..Len(schema.sections) }

LayerAt(p) == schema.sections[p[1]].layers.items[p[2]]

\* the entries that are layer objects
LayerObjects == { p \in LayerSlots : LayerAt(p).kind = "object" }

ZAbove50(l) == l.z # None /\ l.z[1] > Half(50)

\* a section entry, a layers field or a layer entry that is no object of
\* the expected shape
Malformed ==
    /\ schema.kind = "array"
    /\ \/ \E i \in 1..Len(schema.sections) :
              \/ schema.sections[i].kind = "null"
              \/ schema.sections[i].layers.kind = "notArray"
       \/ \E p \in LayerSlots : LayerAt(p).kind = "null"

\* the defects of the scene, as <<section index, layer index, rule>> with
\* the indices from 0 as the messages print them
Defects ==
    IF schema.kind # "array" THEN {}
    ELSE LET S == { i \in 1..Len(schema.sections) :
                      schema.sections[i].kind = "object" }
             sec(i) == schema.sections[i]
         IN  { Err(i - 1, None, "missing id") : i \in { i \in S : sec(i).id = None } }
             \cup { Err(i - 1, None, "missing hero config") :
                      i \in { i \in S : sec(i).hero = None } }
             \cup { Err(i - 1, None, "hero missing text") :
                      i \in { i \in S : \/ sec(i).hero = None
                                         \/ sec(i).hero[1].text = None } }
             \cup { Err(i - 1, None, "missing or invalid layers array") :
                      i \in { i \in S : sec(i).layers.kind # "array" } }
             \cup { Err(p[1] - 1, Some(p[2] - 1), "z-index exceeds max of 50") :
                      p \in { p \in LayerObjects : ZAbove50(LayerAt(p)) } }
             \cup { Err(p[1] - 1, Some(p[2] - 1), "invalid layer type") :
                      p \in { p \in LayerObjects :
                                LayerAt(p).type \notin
                                    { "background", "image", "custom" } } }
             \cup { Err(p[1] - 1, Some(p[2] - 1), "image layer missing src") :
                      p \in { p \in LayerObjects :
                                LayerAt(p).type = "image" /\ ~LayerAt(p).src } }
             \cup { Err(p[1] - 1, Some(p[2] - 1),
                        "custom layer missing renderer name") :
                      p \in { p \in LayerObjects :
                                /\ LayerAt(p).type = "custom"
                                /\ LayerAt(p).renderer = "" } }

ErrorSet == { validation.errors[k] : k \in 1..Len(validation.errors) }

(***************************************************************************)
(* C1: validateSchema returns valid = false for every scene in which some  *)
(* layer has z > 50, and for a scene whose only defect is one layer with   *)
(* z = 51 the errors list has exactly one entry, which names that layer's  *)
(* section index and layer index.                                          *)
(***************************************************************************)
C1_DepthAboveCeilingRejected ==
    Validated =>
        /\ (\E p \in LayerObjects : ZAbove50(LayerAt(p)))
              => ~validation.threw /\ ~validation.valid
        /\ \A p \in LayerObjects :
              (/\ ~Malformed
               /\ LayerAt(p).z = Some(Half(51))
               /\ Defects = { Err(p[1] - 1, Some(p[2] - 1),
                                  "z-index exceeds max of 50") })
              => /\ ~validation.threw
                 /\ validation.errors =
                      << Err(p[1] - 1, Some(p[2] - 1),
                             "z-index exceeds max of 50") >>

(***************************************************************************)
(* C2: for every scene for which validateSchema returns valid = true,      *)
(* every layer of every section has a depth z that is an integer in 0..50  *)
(* (negative z, or no z at all, is not accepted).                          *)
(***************************************************************************)
C2_AcceptedDepthsAreIntegersInRange ==
    (Validated /\ validation.valid) =>
        \A p \in LayerObjects :
            /\ LayerAt(p).z # None
            /\ LayerAt(p).z[1] % 2 = 0
            /\ LayerAt(p).z[1] >= 0
            /\ LayerAt(p).z[1] <= Half(50)

\* C2 as amended: for every scene for which validateSchema returns
\* valid = true, no layer of any section has a depth z above 50; a layer
\* with a negative z, a non-integer z or no z at all is accepted.
C2_AcceptedDepthsNotAboveCeiling ==
    (Validated /\ validation.valid) =>
        \A p \in LayerSlots :
            /\ LayerAt(p).kind = "object"
            /\ LayerAt(p).z = None \/ LayerAt(p).z[1] <= Half(50)

\* an accepted scene with a layer of negative z and a layer without z
C2_Witness ==
    /\ Validated
    /\ validation.valid
    /\ \E p \in LayerObjects : LayerAt(p).z # None /\ LayerAt(p).z[1] < 0
    /\ \E p \in LayerObjects : LayerAt(p).z = None

(***************************************************************************)
(* C3: for every scene accepted by validateSchema, after buildAllSections  *)
(* every element produced for a non-focal layer has a z-index strictly     *)
(* below the hero container's 100, and the hero container is the only      *)
(* element at depth 100 or above.                                          *)
(***************************************************************************)
C3_LayersBelowHero ==
    pc = "built" =>
        \A k \in 1..Len(body) :
            body[k].className # "section-content"
                => body[k].zIndex = None \/ body[k].zIndex[1] < Half(100)

(***************************************************************************)
(* C4: validateSchema collects every defect in one pass: for a scene with  *)
(* a sections array, each violated rule in any section or layer            *)
(* contributes an error regardless of earlier errors, and valid is true    *)
(* if and only if the errors list is empty.                                *)
(***************************************************************************)
C4_EveryDefectReported ==
    (Validated /\ schema.kind = "array") =>
        /\ ~validation.threw
        /\ ErrorSet = Defects
        /\ Len(validation.errors) = Cardinality(Defects)
        /\ validation.valid <=> validation.errors = <<>>

(***************************************************************************)
(* C5: validateSchema reports malformed input as an error value rather     *)
(* than failing: for a scene whose section has a layers field that is      *)
(* present but no sequence, or whose section entry or layer entry is null, *)
(* the call returns valid = false with a corresponding error and raises no *)
(* exception.                                                              *)
(***************************************************************************)
C5_MalformedInputReported ==
    (Validated /\ Malformed) =>
        /\ ~validation.threw
        /\ ~validation.valid
        /\ validation.errors # <<>>

MaxCards == 4
FracLimbs == 4
LimbBits == 16
Base == 2 ^ LimbBits

Limb(x, j) == IF j >= 1 /\ j <= Len(x) THEN x[j] ELSE 0

\* binary digit i of x
Digit(x, i) ==
    (Limb(x, (i - 1) \div LimbBits + 1) \div 2 ^ ((i - 1) % LimbBits)) % 2

\* index of the leading binary 1 of x, 0 for zero
Top(x) ==
    LET ones == { i \in 1..(Len(x) * LimbBits) : Digit(x, i) = 1 }
    IN  IF ones = {} THEN 0 ELSE CHOOSE i \in ones : \A j \in ones : j <= i

RECURSIVE AddLimbs(_, _, _, _, _)
AddLimbs(x, y, j, carry, acc) ==
    IF j > Len(x) /\ j > Len(y)
    THEN IF carry > 0 THEN Append(acc, carry) ELSE acc
    ELSE LET s == Limb(x, j) + Limb(y, j) + carry
         IN  AddLimbs(x, y, j + 1, s \div Base, Append(acc, s % Base))

\* the exact sum of x and y
ExactSum(x, y) == AddLimbs(x, y, 1, 0, <<>>)

RECURSIVE TimesLimbs(_, _, _, _, _)
TimesLimbs(x, n, j, carry, acc) ==
    IF j > Len(x)
    THEN IF carry > 0 THEN Append(acc, carry) ELSE acc
    ELSE LET p == x[j] * n + carry
         IN  TimesLimbs(x, n, j + 1, p \div Base, Append(acc, p % Base))

\* the exact product of x and the natural number n (n < Base)
ExactTimes(n, x) == TimesLimbs(x, n, 1, 0, <<>>)

\* the limbs of the natural number n
RECURSIVE NatLimbs(_)
NatLimbs(n) == IF n = 0 THEN <<>> ELSE << n % Base >> \o NatLimbs(n \div Base)

\* the natural number whose limbs are x[j..]
RECURSIVE NatValue(_, _)
NatValue(x, j) == IF j > Len(x) THEN 0 ELSE x[j] + Base * NatValue(x, j + 1)

\* how many of the binary digits 1..low lie in limb j
LowDigits(low, j) ==
    IF low <= (j - 1) * LimbBits THEN 0
    ELSE IF low >= j * LimbBits THEN LimbBits
    ELSE low - (j - 1) * LimbBits

\* the binary64 value nearest to the exact value x (+ a little, when sticky):
\* 53 digits from the leading 1 are kept, the rest rounds to nearest, ties
\* to even
RoundToDouble(x, sticky) ==
    LET top == Top(x)
        low == top - (52 + 1)
    IN  IF low < 1 THEN x
        ELSE LET kept == [j \in 1..Len(x) |->
                             x[j] - (x[j] % (2 ^ LowDigits(low, j)))]
                 half == Digit(x, low) = 1
                 rest == sticky \/ \E i \in 1..(low - 1) : Digit(x, i) = 1
                 odd == Digit(x, low + 1) = 1
                 ulp == [j \in 1..(low \div LimbBits + 1) |->
                            IF j = low \div LimbBits + 1
                            THEN 2 ^ (low % LimbBits) ELSE 0]
             IN  IF half /\ (rest \/ odd) THEN ExactSum(kept, ulp) ELSE kept

\* the first k limbs of r / d after the point (r < d), and what is left over
RECURSIVE FracLimbsOf(_, _, _, _)
FracLimbsOf(r, d, k, acc) ==
    IF k = 0 THEN [limbs |-> acc, rem |-> r]
    ELSE FracLimbsOf((r * Base) % d, d, k - 1, << (r * Base) \div d >> \o acc)

\* the number a decimal literal n/d denotes: the binary64 value nearest to it
Literal(n, d) ==
    LET q == FracLimbsOf(n % d, d, FracLimbs, <<>>)
    IN  RoundToDouble(q.limbs \o NatLimbs(n \div d), q.rem # 0)

\* x + y
Add(x, y) == RoundToDouble(ExactSum(x, y), FALSE)

\* n * x for a natural number n
Times(n, x) == RoundToDouble(ExactTimes(n, x), FALSE)

\* Math.ceil(x)
Ceil(x) ==
    NatValue(x, FracLimbs + 1)
        + (IF \E j \in 1..FracLimbs : Limb(x, j) # 0 THEN 1 ELSE 0)

\* SCROLL_TIMING
PANEL_READING_HOLD == Literal(12, 10)
CARD_READING_HOLD == Literal(2, 10)
CARD_FADE_DISTANCE == Literal(8, 100)
GREY_SPACE_BETWEEN == Literal(75, 100)
LAST_PANEL_EXTRA_HOLD == Literal(2, 10)

\* the loop of calculateSectionHeight: one fade-in and one reading hold per
\* card
RECURSIVE CardsHold(_, _, _)
CardsHold(holdTime, i, cardCount) ==
    IF i < cardCount
    THEN CardsHold(Add(Add(holdTime, CARD_FADE_DISTANCE), CARD_READING_HOLD),
                   i + 1, cardCount)
    ELSE holdTime

\* calculateSectionHeight({ cardCount, isLastSection, fadeZone }); fadeZone
\* is given in hundredths, as the literal the scene is written with
calculateSectionHeight(options) ==
    LET fadeZone == Literal(options.fadeZone, 100)
        cards == CardsHold(PANEL_READING_HOLD, 0, options.cardCount)
        holdTime == IF options.isLastSection
                    THEN Add(cards, LAST_PANEL_EXTRA_HOLD)
                    ELSE cards
        totalHeight == Add(Add(Times(2, fadeZone), GREY_SPACE_BETWEEN), holdTime)
    IN  Ceil(Times(100, totalHeight))

\* fadeZone values, in hundredths: 0.01 .. 1.00
FadeZones == 1..100

InitTiming ==
    /\ pc = "called"
    /\ \E cardCount \in 0..MaxCards, isLastSection \in BOOLEAN,
          fadeZone \in FadeZones :
          args = [fn |-> "calculateSectionHeight",
                  options |-> [cardCount |-> cardCount,
                               isLastSection |-> isLastSection,
                               fadeZone |-> fadeZone]]
    /\ schema = SchemaArray(<<>>)
    /\ validation = NoValidation
    /\ body = <<>>
    /\ containers = <<>>
    /\ window = NoWindow
    /\ ret = <<>>

SectionHeight ==
    /\ pc = "called"
    /\ args.fn = "calculateSectionHeight"
    /\ ret' = calculateSectionHeight(args.options)
    /\ pc' = "returned"
    /\ UNCHANGED << schema, validation, body, containers, window, args >>

NextTiming == SectionHeight

SpecTiming == InitTiming /\ [][NextTiming]_vars

(***************************************************************************)
(* What the claims about the overlap validator speak of.                   *)
(***************************************************************************)
BoxesCompared == pc = "returned" /\ args.fn = "boxesOverlap"
OverlapChecked == pc = "returned" /\ args.fn = "validateHeroOverlap"

\* the warnings that name layer idx (from 0)
WarningsOf(idx) ==
    { i \in 1..Len(ret.warnings) : ret.warnings[i].layer = idx }

(***************************************************************************)
(* C7: boxesOverlap(a, b) equals NOT (a.right < b.left OR a.left > b.right *)
(* OR a.bottom < b.top OR a.top > b.bottom) for all pairs of axis-aligned  *)
(* boxes; it is symmetric in its arguments, and boxes that only touch      *)
(* along an edge or at a corner count as overlapping (the boxes overlap    *)
(* exactly when they have a point in common).                              *)
(***************************************************************************)
C7_BoxesOverlapIsIntersection ==
    BoxesCompared =>
        LET a == args.box1
            b == args.box2
        IN  /\ ret = ~ ( \/ a.right[1] < b.left[1]
                         \/ a.left[1] > b.right[1]
                         \/ a.bottom[1] < b.top[1]
                         \/ a.top[1] > b.bottom[1] )
            /\ ret = boxesOverlap(b, a)
            /\ ret <=> \E x \in 0..MaxCoord, y \in 0..MaxCoord :
                          /\ a.left[1] <= x /\ x <= a.right[1]
                          /\ b.left[1] <= x /\ x <= b.right[1]
                          /\ a.top[1] <= y /\ y <= a.bottom[1]
                          /\ b.top[1] <= y /\ y <= b.bottom[1]

\* two boxes of positive area that meet in one corner point are reported
\* as overlapping
C7_Witness ==
    /\ BoxesCompared
    /\ args.box1.left[1] < args.box1.right[1]
    /\ args.box1.top[1] < args.box1.bottom[1]
    /\ args.box2.left[1] < args.box2.right[1]
    /\ args.box2.top[1] < args.box2.bottom[1]
    /\ args.box1.right = args.box2.left
    /\ args.box1.bottom = args.box2.top
    /\ ret = TRUE

(***************************************************************************)
(* C8: validateHeroOverlap emits exactly one warning for every custom      *)
(* layer of the section whatever that layer's configuration, and never     *)
(* runs the geometric test on it; so it returns valid = false for every    *)
(* section with a custom layer, and valid is true if and only if the       *)
(* warnings list is empty.                                                 *)
(***************************************************************************)
C8_CustomLayersAlwaysWarned ==
    OverlapChecked =>
        LET items == args.section.layers.items
            custom == { k \in 1..Len(items) : items[k].type = "custom" }
        IN  /\ \A k \in custom :
                  /\ Cardinality(WarningsOf(k - 1)) = 1
                  /\ \A i \in WarningsOf(k - 1) :
                        ret.warnings[i].kind = "cannot be validated automatically"
            /\ custom # {} => ~ret.valid
            /\ ret.valid <=> ret.warnings = <<>>

\* a section whose only layer is a custom layer positioned over the hero
\* text: one warning, and it is the advisory one
C8_Witness ==
    /\ OverlapChecked
    /\ Len(args.section.layers.items) = 1
    /\ args.section.layers.items[1].type = "custom"
    /\ args.section.layers.items[1].position = Some(TopLeft(40, 50))
    /\ ret.warnings = << Warning(0, "cannot be validated automatically") >>
    /\ ~ret.valid

\* one-line hero and a single image layer with a declared width, put at
\* top: t%, left: l%
SingleImageAt(t, l) ==
    /\ OverlapChecked
    /\ args.section.hero[1].text = Some(1)
    /\ Len(args.section.layers.items) = 1
    /\ args.section.layers.items[1].type = "image"
    /\ args.section.layers.items[1].position = Some(TopLeft(t, l))
    /\ args.section.layers.items[1].size # None
    /\ args.section.layers.items[1].size[1].width \in
           { Some(Css(25, "vw")), Some(Css(120, "px")) }

(***************************************************************************)
(* C9: for every viewport size, validateHeroOverlap on a section with a    *)
(* one-line hero and a single image layer reports a warning when the image *)
(* is at top: 40%, left: 50% with a non-trivial width, and reports none    *)
(* when the image is pinned to a screen corner at top: 5%, left: 5%.       *)
(***************************************************************************)
C9_CentreWarnedCornerNot ==
    /\ SingleImageAt(40, 50) => ret.warnings # <<>>
    /\ SingleImageAt(5, 5) => ret.warnings = <<>>

\* C9 as amended.  With H and W the viewport's height and width, f the
\* estimated font size (6% of W by default), heroTop = H/2 - (0.6 f + 40)
\* and heroLeft = (W - min(W, 1080))/2 the hero box's top and left edge,
\* w and h the image's width and height (h = 100 when none is declared;
\* with height 'auto' h is NaN and the image counts as reaching below
\* heroTop): the image at top: 40%, left: 50% is reported if
\* 0.4 H + h > heroTop and is not reported if 0.4 H + h < heroTop (a tall
\* viewport such as 1080 x 1920); the image at top: 5%, left: 5% is
\* reported if 0.05 H + h > heroTop and 0.05 W + w > heroLeft (a short
\* viewport such as 800 x 360) and is not reported if 0.05 H + h < heroTop
\* or 0.05 W + w < heroLeft.  All quantities below are in 1/1000 px.
C9_WarnedWhereBoxesMeet ==
    (SingleImageAt(40, 50) \/ SingleImageAt(5, 5)) =>
        LET W == window.innerWidth
            H == window.innerHeight
            hero == args.section.hero[1]
            image == args.section.layers.items[1]
            f == IF hero.fontSize = None THEN 60 * W
                 ELSE IF hero.fontSize[1].clamp THEN hero.fontSize[1].vw * 10 * W
                 ELSE 80000
            heroTop == 500 * H - ((6 * f) \div 10 + 40000)
            heroLeft == 500 * W - 500 * (IF W < 1080 THEN W ELSE 1080)
            w == IF image.size[1].width = Some(Css(25, "vw")) THEN 250 * W
                 ELSE 120000
            auto == image.size[1].height # None
            h == 100000
            reported == ret.warnings = << Warning(0, "may overlap hero text") >>
            silent == ret.warnings = <<>>
        IN  /\ SingleImageAt(40, 50) =>
                  /\ (auto \/ 400 * H + h > heroTop) => reported
                  /\ (~auto /\ 400 * H + h < heroTop) => silent
            /\ SingleImageAt(5, 5) =>
                  /\ ((auto \/ 50 * H + h > heroTop) /\ 50 * W + w > heroLeft)
                        => reported
                  /\ ((~auto /\ 50 * H + h < heroTop) \/ 50 * W + w < heroLeft)
                        => silent

\* on a 1280 x 720 viewport the image at top: 40%, left: 50% is reported
C9_Witness ==
    /\ SingleImageAt(40, 50)
    /\ window = Viewport(1280, 720)
    /\ args.section.hero[1].fontSize = None
    /\ ret.warnings = << Warning(0, "may overlap hero text") >>

HeightComputed == pc = "returned" /\ args.fn = "calculateSectionHeight"

(***************************************************************************)
(* C10: calculateSectionHeight({cardCount, isLastSection, fadeZone})       *)
(* returns the ceiling, in whole vh, of                                    *)
(* 100 * (2*fadeZone + GREY_SPACE_BETWEEN + holdTime), where holdTime =    *)
(* PANEL_READING_HOLD + cardCount*(CARD_FADE_DISTANCE + CARD_READING_HOLD) *)
(* + (LAST_PANEL_EXTRA_HOLD if isLastSection, else 0), for every cardCount *)
(* >= 0, both values of isLastSection and every fadeZone in (0, 1].  With  *)
(* fadeZone a whole number k of hundredths the quantity is the integer     *)
(* 2k + 75 + 120 + 28 cardCount + 20 [isLastSection].                      *)
(***************************************************************************)
C10_HeightIsCeilingOfFormula ==
    HeightComputed =>
        ret = 2 * args.options.fadeZone + 75 + 120
                + 28 * args.options.cardCount
                + (IF args.options.isLastSection THEN 20 ELSE 0)

(***************************************************************************)
(* Card thresholds and fade zones (scroll-timing-config.js), in binary64.  *)
(* window.innerHeight is a whole number of pixels.                         *)
(***************************************************************************)
MaxSmallHeight == 10

PANEL_FADE_OUT == Literal(3, 10)

\* Math.round(x): the nearest whole number, halves upwards
Round(x) == NatValue(x, FracLimbs + 1) + Digit(x, FracLimbs * LimbBits)

\* the limbs in which x and y differ
Differ(x, y) ==
    { j \in 1..(IF Len(x) > Len(y) THEN Len(x) ELSE Len(y)) :
        Limb(x, j) # Limb(y, j) }

\* x = y, as numbers
SameValue(x, y) == Differ(x, y) = {}

\* x < y
Below(x, y) ==
    LET d == Differ(x, y)
    IN  d # {} /\ LET top == CHOOSE j \in d : \A k \in d : k <= j
                  IN  Limb(x, top) < Limb(y, top)

RECURSIVE SubLimbs(_, _, _, _, _)
SubLimbs(x, y, j, borrow, acc) ==
    IF j > Len(x) THEN acc
    ELSE LET d == x[j] - Limb(y, j) - borrow
         IN  SubLimbs(x, y, j + 1, IF d < 0 THEN 1 ELSE 0,
                      Append(acc, IF d < 0 THEN d + Base ELSE d))

\* the exact difference x - y of numbers x >= y
ExactDiff(x, y) == SubLimbs(x, y, 1, 0, <<>>)

\* x - y for x >= y
Sub(x, y) == RoundToDouble(ExactDiff(x, y), FALSE)

\* calculateCardThreshold without the spacing of the preceding cards
calculateCardThreshold_NoSpacing(windowHeight, cardIndex) ==
    [threshold |-> Round(Times(windowHeight, PANEL_READING_HOLD)),
     fadeDistance |-> Round(Times(windowHeight, CARD_FADE_DISTANCE))]

\* calculateCardThreshold(windowHeight, cardIndex)
calculateCardThreshold(windowHeight, cardIndex) ==
    LET base == Times(windowHeight, PANEL_READING_HOLD)
        pixelThreshold ==
            IF cardIndex > 0
            THEN Add(base,
                     Times(windowHeight,
                           Times(cardIndex,
                                 Add(CARD_FADE_DISTANCE, CARD_READING_HOLD))))
            ELSE base
    IN  [threshold |-> Round(pixelThreshold),
         fadeDistance |-> Round(Times(windowHeight, CARD_FADE_DISTANCE))]

\* calculateFadeZones whose fade zone starts from the bare reading hold
calculateFadeZones_CardsForgotten(windowHeight, cardCount) ==
    LET holdZoneVh ==
            IF cardCount > 0
            THEN Add(PANEL_READING_HOLD,
                     Times(cardCount, Add(CARD_FADE_DISTANCE, CARD_READING_HOLD)))
            ELSE PANEL_READING_HOLD
        fadeZoneVh == Add(PANEL_READING_HOLD, PANEL_FADE_OUT)
    IN  [holdZone |-> Times(windowHeight, holdZoneVh),
         fadeZone |-> Times(windowHeight, fadeZoneVh)]

\* calculateFadeZones(windowHeight, cardCount)
calculateFadeZones(windowHeight, cardCount) ==
    LET holdZoneVh ==
            IF cardCount > 0
            THEN Add(PANEL_READING_HOLD,
                     Times(cardCount, Add(CARD_FADE_DISTANCE, CARD_READING_HOLD)))
            ELSE PANEL_READING_HOLD
        fadeZoneVh == Add(holdZoneVh, PANEL_FADE_OUT)
    IN  [holdZone |-> Times(windowHeight, holdZoneVh),
         fadeZone |-> Times(windowHeight, fadeZoneVh)]

\* viewport heights: the smallest ones and those of common screens
ViewportHeights ==
    (1..MaxSmallHeight) \cup { 360, 600, 667, 720, 768, 900, 1080, 1440, 1920 }

InitZones ==
    /\ pc = "called"
    /\ \E windowHeight \in ViewportHeights, n \in 0..MaxCards :
          \/ args = [fn |-> "calculateCardThreshold",
                     windowHeight |-> windowHeight, cardIndex |-> n]
          \/ args = [fn |-> "calculateFadeZones",
                     windowHeight |-> windowHeight, cardCount |-> n]
    /\ schema = SchemaArray(<<>>)
    /\ validation = NoValidation
    /\ body = <<>>
    /\ containers = <<>>
    /\ window = NoWindow
    /\ ret = <<>>

CardThreshold ==
    /\ pc = "called"
    /\ args.fn = "calculateCardThreshold"
    /\ ret' = calculateCardThreshold(args.windowHeight, args.cardIndex)
    /\ pc' = "returned"
    /\ UNCHANGED << schema, validation, body, containers, window, args >>

FadeZonesOf ==
    /\ pc = "called"
    /\ args.fn = "calculateFadeZones"
    /\ ret' = calculateFadeZones(args.windowHeight, args.cardCount)
    /\ pc' = "returned"
    /\ UNCHANGED << schema, validation, body, containers, window, args >>

NextZones == CardThreshold \/ FadeZonesOf

SpecZones == InitZones /\ [][NextZones]_vars

ThresholdComputed == pc = "returned" /\ args.fn = "calculateCardThreshold"
ZonesComputed == pc = "returned" /\ args.fn = "calculateFadeZones"

\* threshold(i) for the viewport height of the call
ThresholdAt(i) == calculateCardThreshold(args.windowHeight, i).threshold

(***************************************************************************)
(* C11: for every viewport height > 0, the thresholds returned by          *)
(* calculateCardThreshold(viewportHeight, i) for i = 0, 1, 2, ... are      *)
(* strictly increasing in i and evenly spaced: threshold(0) is the base    *)
(* reading hold in pixels and threshold(i+1) - threshold(i) is the same    *)
(* value for every i.                                                      *)
(***************************************************************************)
C11_ThresholdsEvenlySpaced ==
    ThresholdComputed =>
        LET i == args.cardIndex
        IN  /\ ret.threshold < ThresholdAt(i + 1)
            /\ ThresholdAt(i + 1) - ret.threshold = ThresholdAt(1) - ThresholdAt(0)

\* C11 as amended: for every viewport height H > 0, threshold(0) is the
\* base reading hold 1.2 H rounded to whole pixels, the thresholds never
\* decrease in i and are strictly increasing when H >= 4, and every gap
\* threshold(i+1) - threshold(i) is the card spacing 0.28 H rounded down or
\* up to a whole pixel, so that two gaps differ by at most one pixel.
C11_ThresholdsSpacedWithinAPixel ==
    ThresholdComputed =>
        LET i == args.cardIndex
            H == args.windowHeight
            gap == ThresholdAt(i + 1) - ret.threshold
        IN  /\ ThresholdAt(0) = (12 * H + 5) \div 10
            /\ ret.threshold <= ThresholdAt(i + 1)
            /\ H >= 4 => ret.threshold < ThresholdAt(i + 1)
            /\ gap \in { (28 * H) \div 100, (28 * H + 99) \div 100 }

\* on a 667 px high viewport the fourth gap is 186 px after three of 187 px
C11_Witness ==
    /\ ThresholdComputed
    /\ args.windowHeight = 667
    /\ args.cardIndex = 3
    /\ ret.threshold = 1361
    /\ ThresholdAt(4) - ret.threshold = 186
    /\ ThresholdAt(1) - ThresholdAt(0) = 187

(***************************************************************************)
(* C12: calculateFadeZones(viewportHeight, cardCount) returns              *)
(* fadeZone > holdZone for every cardCount >= 0 and every viewportHeight   *)
(* > 0, with fadeZone - holdZone equal to viewportHeight * PANEL_FADE_OUT  *)
(* independent of cardCount.                                               *)
(***************************************************************************)
C12_FadeZoneExceedsHoldByFadeOut ==
    ZonesComputed =>
        /\ Below(ret.holdZone, ret.fadeZone)
        /\ SameValue(Sub(ret.fadeZone, ret.holdZone),
                     Times(args.windowHeight, PANEL_FADE_OUT))

\* C12 as amended: calculateFadeZones(viewportHeight, cardCount) returns
\* fadeZone > holdZone for every cardCount >= 0 and every viewportHeight
\* > 0, and fadeZone - holdZone differs from viewportHeight * PANEL_FADE_OUT
\* by less than a thousandth of a pixel whatever cardCount is (the two are
\* equal only up to the rounding of binary64 arithmetic).
C12_FadeZoneExceedsHoldByAboutFadeOut ==
    ZonesComputed =>
        LET gap == ExactDiff(ret.fadeZone, ret.holdZone)
            fadeOut == Times(args.windowHeight, PANEL_FADE_OUT)
            tolerance == Literal(1, 1000)
        IN  /\ Below(ret.holdZone, ret.fadeZone)
            /\ Below(gap, ExactSum(fadeOut, tolerance))
            /\ Below(fadeOut, ExactSum(gap, tolerance))

\* viewportHeight 1, no cards: holdZone is 1.2, fadeZone 1.5, and their
\* difference is not the binary64 value of 0.3
C12_Witness ==
    /\ ZonesComputed
    /\ args.windowHeight = 1
    /\ args.cardCount = 0
    /\ SameValue(ret.fadeZone, Literal(15, 10))
    /\ ~SameValue(Sub(ret.fadeZone, ret.holdZone), PANEL_FADE_OUT)

(***************************************************************************)
(* The scroll controller: setupScrollBehavior and its updateSectionOpacity *)
(* (section-builder.js).                                                   *)
(*                                                                         *)
(* The page is the body buildAllSections produced, each element with the   *)
(* style its renderer gave it, followed by the comparison container; the   *)
(* section containers lie one below the other from the top of the          *)
(* document.  Lengths are whole pixels: the viewport heights explored make *)
(* every vh a whole number of pixels, and 0.4 and fadeZone times the       *)
(* viewport height whole as well.  An opacity is an exact fraction.        *)
(***************************************************************************)
MaxTimers == 1
MaxTriggers == 2

RECURSIVE Gcd(_, _)
Gcd(a, b) == IF b = 0 THEN a ELSE Gcd(b, a % b)

\* the fraction n / d in lowest terms, for n >= 0 and d > 0
Frac(n, d) == [num |-> n \div Gcd(n, d), den |-> d \div Gcd(n, d)]
Zero == Frac(0, 1)
One == Frac(1, 1)
FracLess(a, b) == a.num * b.den < b.num * a.den

\* Math.max(0, Math.min(1, opacity))
Clamp01(opacity) == IF FracLess(One, opacity) THEN One ELSE opacity

\* a section of the scene with its scroll configuration: scroll.height in vh
Scrolled(section, height) ==
    [kind |-> "object", id |-> section.id, hero |-> section.hero,
     layers |-> section.layers, scroll |-> [height |-> height]]

BackgroundLayer == Layer("background", Some(Half(0)), FALSE, "", None, None)
ImageLayer == Layer("image", Some(Half(1)), TRUE, "", Some(SomePosition), None)
CardsLayer == Layer("custom", Some(Half(2)), FALSE, "challenge-cards", None, None)
ChecklistLayer == Layer("custom", Some(Half(1)), FALSE, "checklist", None, None)

\* height: `${calculateSectionHeight({ cardCount: 0, isLastSection, fadeZone })}vh`
HeightFor(isLastSection, fadeZone) ==
    Some(calculateSectionHeight([cardCount |-> 0, isLastSection |-> isLastSection,
                                 fadeZone |-> fadeZone]))

\* The scenes scrolled through, written as the example scene is for the
\* fade zone given in hundredths: a section with an image and a checklist
\* before a section with cards, and a scene whose first section declares
\* no background.
ScrollScenes(fadeZone) ==
    { SchemaArray(<< Scrolled(Section(Some(1), PlainHero,
                                      LayerArray(<< BackgroundLayer, ImageLayer,
                                                    ChecklistLayer >>)),
                              HeightFor(FALSE, fadeZone)),
                     Scrolled(Section(Some(2), PlainHero,
                                      LayerArray(<< BackgroundLayer, CardsLayer >>)),
                              HeightFor(TRUE, fadeZone)) >>),
      SchemaArray(<< Scrolled(Section(Some(1), PlainHero,
                                      LayerArray(<< ImageLayer >>)),
                              HeightFor(FALSE, fadeZone)),
                     Scrolled(Section(Some(2), PlainHero,
                                      LayerArray(<< BackgroundLayer >>)),
                              HeightFor(TRUE, fadeZone)) >>) }

\* the section container with the height its cssText gives it, in vh
ScrollContainer(section) ==
    [id |-> section.id,
     height |-> IF section.scroll.height = None THEN 250
                ELSE section.scroll.height[1]]

VisualClasses ==
    { "visual-container", "visual-container starfield",
      "visual-container challenge-cards", "visual-container checklist",
      "visual-container jetty-method-title" }

IsVisual(el) == el.className \in VisualClasses
IsCards(el) == el.className = "visual-container challenge-cards"

\* the element as it is appended: display and opacity from its cssText;
\* <<>> is a property the cssText does not set
Styled(el) ==
    [tag |-> el.tag, className |-> el.className, section |-> el.section,
     zIndex |-> el.zIndex,
     display |-> IF el.className \in { "visual-container",
                                       "visual-container starfield" }
                 THEN "flex" ELSE "",
     opacity |-> IF el.tag = "img"
                    \/ el.className \in { "section-background", "section-content",
                                          "visual-container checklist",
                                          "visual-container jetty-method-title" }
                 THEN Some(Zero) ELSE None,
     pointerEvents |-> IF el.className \in { "section-content",
                                             "visual-container challenge-cards" }
                       THEN "none" ELSE "",
     animationTriggered |-> FALSE,
     sectionActive |-> FALSE,
     cardsExit |-> FALSE,
     timers |-> 0]

\* <div id="comparison-container">, which follows the sections
ComparisonContainer == Element("div", "comparison-container", None, None)

\* the page of a scene: document.body and the section containers
Page(scene) ==
    LET built == buildAllSections(scene)
    IN  [body |-> [k \in 1..(Len(built.body) + 1) |->
                      IF k <= Len(built.body) THEN Styled(built.body[k])
                      ELSE Styled(ComparisonContainer)],
         containers |-> [i \in 1..Len(scene.sections) |->
                            ScrollContainer(scene.sections[i])]]

\* pixels of a length in vh
VhPx(vh, windowHeight) == (vh * windowHeight) \div 100

\* the document offset of the top of section container i
RECURSIVE OffsetTop(_, _, _)
OffsetTop(conts, i, windowHeight) ==
    IF i = 1 THEN 0
    ELSE OffsetTop(conts, i - 1, windowHeight)
         + VhPx(conts[i - 1].height, windowHeight)

\* section.getBoundingClientRect() at scroll position scrollY
RectOf(conts, i, windowHeight, scrollY) ==
    LET top == OffsetTop(conts, i, windowHeight) - scrollY
        height == VhPx(conts[i].height, windowHeight)
    IN  [top |-> top, bottom |-> top + height, height |-> height]

\* rect.bottom < 0 || rect.top > windowHeight
OutOfView(rect, windowHeight) == rect.bottom < 0 \/ rect.top > windowHeight

Abs(n) == IF n < 0 THEN -n ELSE n

\* twice the distance of the section centre from the viewport centre
Distance2(rect, windowHeight) == Abs(2 * rect.top + rect.height - windowHeight)

\* twice windowHeight * 0.4, and twice windowHeight * fadeZone for the
\* fadeZone given in hundredths
HoldZone2_Tenth(windowHeight) == (2 * windowHeight) \div 10
HoldZone2(windowHeight) == (8 * windowHeight) \div 10
FadeZone2(windowHeight, fadeZone) == (2 * fadeZone * windowHeight) \div 100

\* The opacity of a section in view, from twice its distance and twice the
\* zones.  The quotient is evaluated only for holdZone <= distance <
\* fadeZone, where it lies in [0, 1).
SectionOpacity_Documented(distance2, holdZone2, fadeZone2) ==
    IF distance2 < fadeZone2 THEN Frac(fadeZone2 - distance2, fadeZone2)
    ELSE Zero

SectionOpacity(distance2, holdZone2, fadeZone2) ==
    IF distance2 < holdZone2 THEN One
    ELSE IF distance2 < fadeZone2
         THEN Frac((fadeZone2 - holdZone2) - (distance2 - holdZone2),
                   fadeZone2 - holdZone2)
         ELSE Zero

\* the challenge-cards branch for one visual: the trigger, which also
\* starts the timer that adds cards-exit, then the reset
CardsStep_NeverSticky(vis, opacity) ==
    IF ~ FracLess(opacity, One)
    THEN [vis EXCEPT !.animationTriggered = TRUE, !.sectionActive = TRUE,
                     !.timers = @ + 1]
    ELSE IF FracLess(opacity, Frac(1, 2)) /\ vis.animationTriggered
         THEN [vis EXCEPT !.animationTriggered = FALSE,
                          !.sectionActive = FALSE, !.cardsExit = FALSE]
         ELSE vis

CardsStep(vis, opacity) ==
    LET triggered ==
            IF ~ FracLess(opacity, One) /\ ~ vis.animationTriggered
            THEN [vis EXCEPT !.animationTriggered = TRUE,
                             !.sectionActive = TRUE, !.timers = @ + 1]
            ELSE vis
    IN  IF FracLess(opacity, Frac(1, 2)) /\ triggered.animationTriggered
        THEN [triggered EXCEPT !.animationTriggered = FALSE,
                               !.sectionActive = FALSE, !.cardsExit = FALSE]
        ELSE triggered

\* the index in els of the n-th element of the class, 0 when there are
\* fewer: document.querySelectorAll(selector)[n - 1]
NthOfClass(els, className, n) ==
    LET found == { k \in 1..Len(els) : els[k].className = className }
    IN  IF Cardinality(found) < n THEN 0
        ELSE CHOOSE k \in found : Cardinality({ j \in found : j <= k }) = n

\* the elements the callback looks up for section index
SectionElements(els, conts, index) ==
    [bg |-> NthOfClass(els, "section-background", index),
     content |-> NthOfClass(els, "section-content", index),
     images |-> { k \in 1..Len(els) :
                     els[k].tag = "img" /\ els[k].section = conts[index].id },
     visuals |-> { k \in 1..Len(els) :
                      IsVisual(els[k]) /\ els[k].section = conts[index].id }]

\* the opacity the callback computes for section index; <<>> when the
\* section is out of view and the callback returns early
ComputedOpacity(conts, index, windowHeight, scrollY, fadeZone) ==
    LET rect == RectOf(conts, index, windowHeight, scrollY)
    IN  IF OutOfView(rect, windowHeight) THEN None
        ELSE Some(SectionOpacity(Distance2(rect, windowHeight),
                                 HoldZone2(windowHeight),
                                 FadeZone2(windowHeight, fadeZone)))

\* what the callback does to element k of the body for a section whose
\* elements are found and whose computed opacity is opacity
StyleFor(el, k, found, opacity) ==
    IF opacity = None
    THEN IF k \in { found.bg, found.content } \cup found.images \cup found.visuals
         THEN [el EXCEPT !.display = "none"]
         ELSE el
    ELSE IF k \in { found.bg, found.content } \cup found.images
         THEN [el EXCEPT !.display = "block",
                         !.opacity = Some(Clamp01(opacity[1]))]
         ELSE IF k \notin found.visuals THEN el
         ELSE IF IsCards(el)
              THEN CardsStep([el EXCEPT !.display = "block"], opacity[1])
              ELSE [el EXCEPT !.display = "block",
                              !.opacity = Some(Clamp01(opacity[1]))]

RECURSIVE Restyle(_, _, _, _, _)
Restyle(els, k, found, opacity, done) ==
    IF k > Len(els) THEN done
    ELSE Restyle(els, k + 1, found, opacity,
                 Append(done, StyleFor(els[k], k, found, opacity)))

\* the body of sections.forEach for section index
UpdateSection(els, conts, index, windowHeight, scrollY, fadeZone) ==
    Restyle(els, 1, SectionElements(els, conts, index),
            ComputedOpacity(conts, index, windowHeight, scrollY, fadeZone),
            <<>>)

RECURSIVE UpdateSections(_, _, _, _, _, _)
UpdateSections(els, conts, index, windowHeight, scrollY, fadeZone) ==
    IF index > Len(conts) THEN els
    ELSE UpdateSections(UpdateSection(els, conts, index, windowHeight,
                                      scrollY, fadeZone),
                        conts, index + 1, windowHeight, scrollY, fadeZone)

\* the style the callback gives the comparison container for the bottom
\* of the last section: fadeIn over 0.3 of the viewport height
ComparisonStyle_AutoWhenVisible(lastBottom, windowHeight) ==
    IF 2 * lastBottom > windowHeight
    THEN [opacity |-> Zero, pointerEvents |-> "none"]
    ELSE LET fadeIn == Clamp01(Frac(5 * (windowHeight - 2 * lastBottom),
                                    3 * windowHeight))
         IN  [opacity |-> fadeIn,
              pointerEvents |-> IF FracLess(Zero, fadeIn)
                                THEN "auto" ELSE "none"]

ComparisonStyle(lastBottom, windowHeight) ==
    IF 2 * lastBottom > windowHeight
    THEN [opacity |-> Zero, pointerEvents |-> "none"]
    ELSE LET fadeIn == Clamp01(Frac(5 * (windowHeight - 2 * lastBottom),
                                    3 * windowHeight))
         IN  [opacity |-> fadeIn,
              pointerEvents |-> IF FracLess(Frac(1, 2), fadeIn)
                                THEN "auto" ELSE "none"]

RECURSIVE StyleComparison(_, _, _, _)
StyleComparison(els, k, style, done) ==
    IF k > Len(els) THEN done
    ELSE StyleComparison(els, k + 1, style,
             Append(done,
                    IF els[k].className = "comparison-container"
                    THEN [els[k] EXCEPT !.opacity = Some(style.opacity),
                                        !.pointerEvents = style.pointerEvents]
                    ELSE els[k]))

\* the comparison block of the callback
UpdateComparison(els, conts, windowHeight, scrollY) ==
    IF Len(conts) = 0 THEN els
    ELSE StyleComparison(els, 1,
                         ComparisonStyle(RectOf(conts, Len(conts), windowHeight,
                                                scrollY).bottom, windowHeight),
                         <<>>)

\* updateSectionOpacity(): the body after the callback has run
updateSectionOpacity(els, conts, windowHeight, scrollY, fadeZone) ==
    UpdateSections(UpdateComparison(els, conts, windowHeight, scrollY),
                   conts, 1, windowHeight, scrollY, fadeZone)

(***************************************************************************)
(* The scrolled page as a state machine.  schema is the scene, containers  *)
(* and body the page built from it, window the viewport height and the     *)
(* scroll position, args the fadeZone setupScrollBehavior was given, in    *)
(* hundredths.  ret keeps what the properties below need of the past:      *)
(* whether the last callback triggered the cards, how many callbacks have, *)
(* whether the page has only moved forward, and whether a callback has run *)
(* with a section with cards at full opacity.                              *)
(* pc is "built" until setupScrollBehavior has run the callback once.      *)
(***************************************************************************)
ScrollViewportHeights == { 200 }
ScrollFadeZones == { 50, 70 }

\* one wheel step: a fortieth of the viewport height
ScrollStep(windowHeight) == windowHeight \div 40

\* the height of the sections together; the page scrolls until the last
\* section has left the viewport
DocumentHeight(conts, windowHeight) ==
    OffsetTop(conts, Len(conts), windowHeight)
    + VhPx(conts[Len(conts)].height, windowHeight)

ScrollPositions(conts, windowHeight) ==
    { y \in 0..DocumentHeight(conts, windowHeight) :
         y % ScrollStep(windowHeight) = 0 }

InitScroll ==
    \E fadeZone \in ScrollFadeZones, windowHeight \in ScrollViewportHeights :
      \E scene \in ScrollScenes(fadeZone) :
        /\ pc = "built"
        /\ schema = scene
        /\ validation = NoValidation
        /\ body = Page(scene).body
        /\ containers = Page(scene).containers
        /\ window = [innerHeight |-> windowHeight, scrollY |-> 0]
        /\ args = [fadeZone |-> fadeZone]
        /\ ret = [fired |-> FALSE, count |-> 0, forward |-> TRUE,
                  full |-> FALSE]

\* whether some element of after has started a timer that before had not
Fired(before, after) ==
    \E k \in 1..Len(before) : after[k].timers > before[k].timers

\* whether at scrollY a section with cards has computed opacity 1
CardsAtFull(scrollY) ==
    \E i \in 1..Len(containers) :
       /\ \E k \in SectionElements(body, containers, i).visuals : IsCards(body[k])
       /\ ComputedOpacity(containers, i, window.innerHeight, scrollY,
                          args.fadeZone) = Some(One)

\* the page moves to scrollY and the callback leaves the body as after
Scrolled_To(scrollY, after, forward) ==
    /\ \A k \in 1..Len(after) : after[k].timers <= MaxTimers
    /\ ret.count + (IF Fired(body, after) THEN 1 ELSE 0) <= MaxTriggers
    /\ body' = after
    /\ window' = [window EXCEPT !.scrollY = scrollY]
    /\ ret' = [fired |-> Fired(body, after),
               count |-> ret.count + (IF Fired(body, after) THEN 1 ELSE 0),
               forward |-> forward,
               full |-> ret.full \/ CardsAtFull(scrollY)]
    /\ UNCHANGED << schema, validation, containers, args >>

\* the callback runs with the page at scrollY
Tick(scrollY, forward) ==
    Scrolled_To(scrollY,
                updateSectionOpacity(body, containers, window.innerHeight,
                                     scrollY, args.fadeZone),
                forward)

\* updateSectionOpacity() at the end of setupScrollBehavior
SetupScroll ==
    /\ pc = "built"
    /\ pc' = "scrolling"
    /\ Tick(window.scrollY, TRUE)

\* a scroll event after one step down the page
ScrollForward ==
    /\ pc = "scrolling"
    /\ window.scrollY + ScrollStep(window.innerHeight)
          \in ScrollPositions(containers, window.innerHeight)
    /\ UNCHANGED pc
    /\ Tick(window.scrollY + ScrollStep(window.innerHeight), ret.forward)

\* a scroll event after one step up the page
ScrollBack ==
    /\ pc = "scrolling"
    /\ window.scrollY - ScrollStep(window.innerHeight)
          \in ScrollPositions(containers, window.innerHeight)
    /\ UNCHANGED pc
    /\ Tick(window.scrollY - ScrollStep(window.innerHeight), FALSE)

\* where a jump lands: the top and the end of the page, and each section
\* centred in the viewport
JumpTargets(conts, windowHeight) ==
    { 0, DocumentHeight(conts, windowHeight) }
    \cup { y \in ScrollPositions(conts, windowHeight) :
              \E i \in 1..Len(conts) :
                 LET rect == RectOf(conts, i, windowHeight, y)
                 IN  2 * rect.top + rect.height = windowHeight }

\* a scroll event after the page was moved anywhere else: a dragged
\* scrollbar, a key, an anchor
Jump ==
    /\ pc = "scrolling"
    /\ UNCHANGED pc
    /\ \E scrollY \in JumpTargets(containers, window.innerHeight) :
          /\ scrollY # window.scrollY
          /\ Tick(scrollY, ret.forward /\ scrollY > window.scrollY)

\* the timeout a trigger started expires: classList.add('cards-exit')
TimerFires ==
    /\ pc = "scrolling"
    /\ \E k \in 1..Len(body) :
          /\ body[k].timers > 0
          /\ body' = [body EXCEPT ![k].timers = @ - 1, ![k].cardsExit = TRUE]
    /\ UNCHANGED << pc, schema, validation, containers, window, args, ret >>

NextScroll == SetupScroll \/ ScrollForward \/ ScrollBack \/ Jump \/ TimerFires

SpecScroll == InitScroll /\ [][NextScroll]_vars

(***************************************************************************)
(* Properties of the scroll controller.                                    *)
(***************************************************************************)
\* the callback has run at the current scroll position
Ticked == pc = "scrolling"

SectionIndices == 1..Len(containers)

\* the rectangle of section i at the current scroll position
RectNow(i) == RectOf(containers, i, window.innerHeight, window.scrollY)
InViewNow(i) == ~ OutOfView(RectNow(i), window.innerHeight)
DistanceNow2(i) == Distance2(RectNow(i), window.innerHeight)
HoldNow2 == HoldZone2(window.innerHeight)
FadeNow2 == FadeZone2(window.innerHeight, args.fadeZone)

\* the elements of section i that the callback fades: its hero content, its
\* images and its visuals other than the cards, found by the section they
\* are tagged with
FadedOf(i) ==
    { k \in 1..Len(body) :
         /\ body[k].section = containers[i].id
         /\ \/ body[k].className = "section-content"
            \/ body[k].tag = "img"
            \/ IsVisual(body[k]) /\ ~ IsCards(body[k]) }

BackgroundsOf(i) ==
    { k \in 1..Len(body) :
         body[k].section = containers[i].id /\ IsBackground(body[k]) }

\* Hidden: not painted and fully transparent
Hidden(el) == el.display = "none" /\ el.opacity = Some(Zero)

\* C14: after any tick every section entirely above or entirely below the
\* viewport is Hidden: its background, hero content, images and visuals
\* have display none and opacity 0, whatever its state was before.
C14_OutOfViewIsHidden ==
    Ticked =>
      \A i \in SectionIndices :
        ~ InViewNow(i) =>
          \A k \in BackgroundsOf(i) \cup FadedOf(i) : Hidden(body[k])

\* the display and opacity values of the elements of the sections
Shown(els) ==
    [k \in { j \in 1..Len(els) : els[j].section # None } |->
        << els[k].display, els[k].opacity >>]

\* the callback run once more at the current scroll position
TickedAgain ==
    updateSectionOpacity(body, containers, window.innerHeight,
                         window.scrollY, args.fadeZone)

\* the callback run at the current scroll position on the page as built
TickedAfresh ==
    updateSectionOpacity(Page(schema).body, containers, window.innerHeight,
                         window.scrollY, args.fadeZone)

\* C15: the controller is idempotent and history-free apart from the card
\* sticky flag: running the callback twice at one scroll position yields
\* the same display and opacity values, and the values for a scroll
\* position do not depend on the positions processed before.
C15_IdempotentAndHistoryFree ==
    Ticked => /\ Shown(TickedAgain) = Shown(body)
              /\ Shown(TickedAfresh) = Shown(body)

\* the sections with a challenge-cards container
CardSections ==
    { i \in SectionIndices :
         \E k \in 1..Len(body) :
            body[k].section = containers[i].id /\ IsCards(body[k]) }

\* the opacity the callback computed for section i at the last tick
OpacityNow(i) ==
    ComputedOpacity(containers, i, window.innerHeight, window.scrollY,
                    args.fadeZone)

\* the scroll position is beyond the hold zone of section i
PastHold(i) ==
    2 * RectNow(i).top + RectNow(i).height - window.innerHeight <= - HoldNow2

\* C16 as stated: during a monotonically forward scroll through a section
\* with cards the reveal is triggered exactly once, and never at a tick
\* where the section's computed opacity is below 1.
C16_RevealedExactlyOnceGoingForward ==
    (Ticked /\ ret.forward) =>
       /\ ret.count <= 1
       /\ \A i \in CardSections : PastHold(i) => ret.count = 1
       /\ ret.fired => \E i \in CardSections : OpacityNow(i) = Some(One)

\* C16 amended: during a monotonically forward scroll the reveal is
\* triggered at most once, exactly once when some tick fell where the
\* section's computed opacity is 1, and never at a tick where the computed
\* opacity is below 1.
C16_RevealedOnceWhenHeldGoingForward ==
    /\ ret.fired => \E i \in CardSections : OpacityNow(i) = Some(One)
    /\ (Ticked /\ ret.forward) =>
          /\ ret.count <= 1
          /\ ret.full <=> ret.count = 1

\* a forward scroll that has triggered the reveal once and has left the
\* section's hold zone behind, the sticky flag reset
C16_Witness ==
    /\ Ticked /\ ret.forward /\ ret.count = 1 /\ ~ ret.fired
    /\ \E i \in CardSections :
          /\ PastHold(i)
          /\ \E k \in 1..Len(body) :
                /\ body[k].section = containers[i].id /\ IsCards(body[k])
                /\ ~ body[k].animationTriggered

\* Card cardIndex of a cards container is revealed: the controller keeps
\* no state per card, the cards show while their container carries the
\* class section-active.
CardRevealed(vis, cardIndex) == vis.sectionActive

\* twice the distance the centre of section i has moved up past the centre
\* of the viewport
PastCentre2(i) == window.innerHeight - (2 * RectNow(i).top + RectNow(i).height)

\* C17: card i of a section is revealed only once the section's opacity
\* has reached 1 and the scroll distance has crossed the card's own
\* threshold calculateCardThreshold(viewportHeight, i).threshold, so the
\* cards are revealed in index order at distinct scroll positions.
C17_CardsRevealedAtOwnThreshold ==
    Ticked =>
      \A i \in CardSections :
        \A k \in { j \in 1..Len(body) :
                      body[j].section = containers[i].id /\ IsCards(body[j]) } :
          \A cardIndex \in 0..(MaxCards - 1) :
            CardRevealed(body[k], cardIndex) =>
               PastCentre2(i) >=
                  2 * calculateCardThreshold(window.innerHeight, cardIndex).threshold

\* section i is not visible: out of the viewport, or in view with a
\* computed opacity below one half
NotVisible(i) ==
    \/ OpacityNow(i) = None
    \/ FracLess(OpacityNow(i)[1], Frac(1, 2))

\* C18: the card sequence can always replay: once the section is no longer
\* visible after a tick (opacity below 0.5, or out of the viewport, by any
\* movement) the sticky flag is reset, so that the next tick at opacity 1
\* triggers the reveal again.
C18_FlagResetWhenNotVisible ==
    Ticked =>
      \A i \in CardSections :
        NotVisible(i) =>
          \A k \in 1..Len(body) :
            (body[k].section = containers[i].id /\ IsCards(body[k]))
               => ~ body[k].animationTriggered

\* the comparison container, and the bottom edge of the last section
Comparison == body[CHOOSE k \in 1..Len(body) :
                      body[k].className = "comparison-container"]
LastBottom == RectNow(Len(containers)).bottom

\* C19: after any tick the comparison element has opacity 0 and
\* pointer-events none while the last section's bottom edge is below the
\* viewport midpoint; otherwise its opacity is
\* min(1, (0.5 * H - lastBottom) / (0.3 * H)), within [0, 1], and
\* pointer-events is auto exactly when that opacity exceeds 0.5.
C19_ComparisonFadesInAfterLastSection ==
    Ticked =>
      LET H == window.innerHeight
          opacity == Comparison.opacity
      IN  /\ opacity # None
          /\ 2 * LastBottom > H =>
                opacity[1] = Zero /\ Comparison.pointerEvents = "none"
          /\ 2 * LastBottom <= H =>
                /\ IF 5 * (H - 2 * LastBottom) >= 3 * H
                   THEN opacity[1] = One
                   ELSE opacity[1].num * (3 * H)
                           = opacity[1].den * (5 * (H - 2 * LastBottom))
                /\ opacity[1].num >= 0
                /\ opacity[1].num <= opacity[1].den
                /\ Comparison.pointerEvents \in { "auto", "none" }
                /\ Comparison.pointerEvents = "auto"
                      <=> 2 * opacity[1].num > opacity[1].den

\* the last section's bottom edge above the midpoint, the comparison
\* element partly faded in and already clickable
C19_Witness ==
    /\ Ticked
    /\ 2 * LastBottom < window.innerHeight
    /\ Comparison.opacity # None
    /\ FracLess(Frac(1, 2), Comparison.opacity[1])
    /\ FracLess(Comparison.opacity[1], One)
    /\ Comparison.pointerEvents = "auto"

\* the callback computes an opacity above 0 for section i at scrollY
VisibleAt(i, scrollY) ==
    LET opacity == ComputedOpacity(containers, i, window.innerHeight, scrollY,
                                   args.fadeZone)
    IN  opacity # None /\ FracLess(Zero, opacity[1])

\* the opacities the callback computes never overlap, and move from
\* section to section in declaration order as the scroll position grows
ComputedOpacitiesInSequence ==
    /\ [](\A i, j \in SectionIndices :
             (VisibleAt(i, window.scrollY) /\ VisibleAt(j, window.scrollY))
                => i = j)
    /\ [][\A i, j \in SectionIndices :
             (/\ window'.scrollY > window.scrollY
              /\ VisibleAt(i, window.scrollY)
              /\ VisibleAt(j, window'.scrollY)) => i <= j]_vars

\* some element of section i carries an opacity above 0
HasOpacity(i) ==
    \E k \in BackgroundsOf(i) \cup FadedOf(i) :
       body[k].opacity # None /\ FracLess(Zero, body[k].opacity[1])

\* C20: no crossfade: with section heights from calculateSectionHeight for
\* the fade zone the controller was started with, at every scroll position
\* at most one section has an opacity above 0, and as the scroll position
\* increases the sections become visible in declaration order.
C20_NoCrossfade ==
    /\ [](Ticked => \A i, j \in SectionIndices :
                       (HasOpacity(i) /\ HasOpacity(j)) => i = j)
    /\ [][\A i, j \in SectionIndices :
             (/\ window'.scrollY > window.scrollY
              /\ VisibleAt(i, window.scrollY)
              /\ VisibleAt(j, window'.scrollY)) => i <= j]_vars

(***************************************************************************)
(* A section's height and its zones together: calculateSectionHeight with  *)
(* fadeZone 0.7 and calculateFadeZones for the same number of cards        *)
(* (scroll-timing.js).                                                     *)
(***************************************************************************)
InitHeightAndZones ==
    /\ pc = "called"
    /\ \E windowHeight \in ViewportHeights, cardCount \in 0..(MaxCards + 2),
          isLastSection \in BOOLEAN :
          args = [fn |-> "calculateSectionHeight, calculateFadeZones",
                  windowHeight |-> windowHeight,
                  options |-> [cardCount |-> cardCount,
                               isLastSection |-> isLastSection,
                               fadeZone |-> 70]]
    /\ schema = SchemaArray(<<>>)
    /\ validation = NoValidation
    /\ body = <<>>
    /\ containers = <<>>
    /\ window = NoWindow
    /\ ret = <<>>

HeightAndZones ==
    /\ pc = "called"
    /\ ret' = [height |-> calculateSectionHeight(args.options),
               zones |-> calculateFadeZones(args.windowHeight,
                                            args.options.cardCount)]
    /\ pc' = "returned"
    /\ UNCHANGED << schema, validation, body, containers, window, args >>

NextHeightAndZones == HeightAndZones

SpecHeightAndZones == InitHeightAndZones /\ [][NextHeightAndZones]_vars

\* the natural number n as a value with FracLimbs limbs of fraction
Whole(n) == [j \in 1..FracLimbs |-> 0] \o NatLimbs(n)

\* C21: for every cardCount >= 0 and both values of isLastSection, with
\* h = calculateSectionHeight({cardCount, isLastSection, fadeZone: 0.7}) and
\* the zones of calculateFadeZones(H, cardCount), the fade zone is reached
\* no later than the distance h/2 + H/2 (h in vh of H) at which the section
\* has left the viewport: 200 * fadeZone <= H * (h + 100).
C21_FadeCompletesBeforeHidden ==
    pc = "returned" =>
       ~ Below(Whole(args.windowHeight * (ret.height + 100)),
               ExactTimes(200, ret.zones.fadeZone))

(***************************************************************************)
(* The scrolled page with fade zones configured in other ways: a section   *)
(* that declares its own scroll.fadeZone, and defaults at and below the    *)
(* hold zone of 0.4.                                                       *)
(***************************************************************************)
\* a section of the scene with scroll: { height, fadeZone }, the fade zone
\* in hundredths
ScrolledWith(section, height, fadeZone) ==
    [kind |-> "object", id |-> section.id, hero |-> section.hero,
     layers |-> section.layers,
     scroll |-> [height |-> height, fadeZone |-> fadeZone]]

\* the fade zone the first section declares for itself
OwnFadeZone == 50

\* the defaults setupScrollBehavior is called with
DefaultFadeZones == { 30, 40, 70 }

\* a section with its own fade zone before a section with cards that
\* declares none
ConfiguredScene(fadeZone) ==
    SchemaArray(<< ScrolledWith(Section(Some(1), PlainHero,
                                        LayerArray(<< BackgroundLayer, ImageLayer >>)),
                                HeightFor(FALSE, OwnFadeZone), Some(OwnFadeZone)),
                   ScrolledWith(Section(Some(2), PlainHero,
                                        LayerArray(<< BackgroundLayer, CardsLayer >>)),
                                HeightFor(TRUE, fadeZone), None) >>)

InitFadeConfig ==
    \E fadeZone \in DefaultFadeZones, windowHeight \in ScrollViewportHeights :
        /\ pc = "built"
        /\ schema = ConfiguredScene(fadeZone)
        /\ validation = NoValidation
        /\ body = Page(ConfiguredScene(fadeZone)).body
        /\ containers = Page(ConfiguredScene(fadeZone)).containers
        /\ window = [innerHeight |-> windowHeight, scrollY |-> 0]
        /\ args = [fadeZone |-> fadeZone]
        /\ ret = [fired |-> FALSE, count |-> 0, forward |-> TRUE,
                  full |-> FALSE]

SpecFadeConfig == InitFadeConfig /\ [][NextScroll]_vars

\* the fade zone section i is declared with: its own scroll.fadeZone, or
\* the default where it declares none
DeclaredFadeZone(i) ==
    IF schema.sections[i].scroll.fadeZone = None THEN args.fadeZone
    ELSE schema.sections[i].scroll.fadeZone[1]

\* C22: a section's own scroll.fadeZone is honoured at runtime: the fade
\* zone used for the section is viewportHeight * its scroll.fadeZone, and
\* the default is used only for sections that declare none.
C22_OwnFadeZoneHonoured ==
    Ticked =>
      \A i \in SectionIndices :
        InViewNow(i) =>
          \A k \in FadedOf(i) :
            body[k].opacity =
               Some(Clamp01(SectionOpacity(DistanceNow2(i), HoldNow2,
                                           FadeZone2(window.innerHeight,
                                                     DeclaredFadeZone(i)))))

\* the callback evaluates the linear fade expression: distance < holdZone
\* is false and distance < sectionFadeZone is true
LinearFadeTaken(distance2, holdZone2, fadeZone2) ==
    ~ (distance2 < holdZone2) /\ distance2 < fadeZone2

\* twice the distance of section i from the viewport centre at scrollY
DistanceAt2(i, scrollY) ==
    Distance2(RectOf(containers, i, window.innerHeight, scrollY),
              window.innerHeight)

\* the scroll positions at which the callback evaluates the linear fade
\* expression for some section
LinearFadePositions ==
    { y \in ScrollPositions(containers, window.innerHeight) :
         \E i \in SectionIndices :
            /\ ~ OutOfView(RectOf(containers, i, window.innerHeight, y),
                           window.innerHeight)
            /\ LinearFadeTaken(DistanceAt2(i, y), HoldNow2, FadeNow2) }

C24_HoldZoneBelowFadeZone ==
    (Ticked /\ args.fadeZone > 0 /\ args.fadeZone <= 100) =>
       \A i \in SectionIndices :
          HoldZone2(window.innerHeight)
             < FadeZone2(window.innerHeight, args.fadeZone)

(***************************************************************************)
(* The CLAUDE.md hook (.jettypod/hooks/protect-claude-md.js).              *)
(*                                                                         *)
(* A text is a sequence of lexemes: the tags and the "Status: " label the  *)
(* patterns look for, words (runs of \w characters) and other text.  args  *)
(* is the hook input read from stdin, schema the CLAUDE.md on disk before  *)
(* the tool call and body the file as the tool call leaves it, ret what    *)
(* the hook has written to stdout and its exit status.                     *)
(***************************************************************************)
Words == { "discovery", "speed", "open", "done", "a", "b" }

\* a maximal run of word lexemes of text starting at i ends before this index
RECURSIVE WordsEnd(_, _)
WordsEnd(text, i) ==
    IF i <= Len(text) /\ text[i] \in Words THEN WordsEnd(text, i + 1) ELSE i

\* the subsequence text[i..j]
Slice(text, i, j) == [k \in 1..(j - i + 1) |-> text[i + k - 1]]

\* text.match(/<tag>(\w+)<\/tag>/): the captured value of the first match
MatchTag(text, open, close) ==
    LET hits == { i \in 1..Len(text) :
                     /\ text[i] = open
                     /\ WordsEnd(text, i + 1) > i + 1
                     /\ WordsEnd(text, i + 1) <= Len(text)
                     /\ text[WordsEnd(text, i + 1)] = close }
    IN  IF hits = {} THEN None
        ELSE LET i == CHOOSE h \in hits : \A g \in hits : h <= g
             IN  Some(Slice(text, i + 1, WordsEnd(text, i + 1) - 1))

\* text.match(/Status: (\w+)/)
MatchStatus(text) ==
    LET hits == { i \in 1..Len(text) :
                     text[i] = "Status: " /\ WordsEnd(text, i + 1) > i + 1 }
    IN  IF hits = {} THEN None
        ELSE LET i == CHOOSE h \in hits : \A g \in hits : h <= g
             IN  Some(Slice(text, i + 1, WordsEnd(text, i + 1) - 1))

\* text.match(/<current_work>[\s\S]*?<\/current_work>/): the matched text
MatchWork(text) ==
    LET hits == { i \in 1..Len(text) :
                     /\ text[i] = "<current_work>"
                     /\ \E j \in (i + 1)..Len(text) : text[j] = "</current_work>" }
    IN  IF hits = {} THEN None
        ELSE LET i == CHOOSE h \in hits : \A g \in hits : h <= g
                 j == CHOOSE e \in (i + 1)..Len(text) :
                         /\ text[e] = "</current_work>"
                         /\ \A d \in (i + 1)..(e - 1) : text[d] # "</current_work>"
             IN  Some(Slice(text, i, j))

\* oldX && newX && oldX[1] !== newX[1]
BothAndDiffer(old, new) == old # None /\ new # None /\ old[1] # new[1]

\* FORBIDDEN_PATTERNS[k].detect(old, newStr)
Detect(name, old, newStr) ==
    CASE name = "mode_change" ->
            BothAndDiffer(MatchTag(old, "<mode>", "</mode>"),
                          MatchTag(newStr, "<mode>", "</mode>"))
      [] name = "current_work_change" ->
            \/ BothAndDiffer(MatchWork(old), MatchWork(newStr))
            \/ MatchWork(old) = None /\ MatchWork(newStr) # None
            \/ MatchWork(old) # None /\ MatchWork(newStr) = None
      [] name = "work_status_change" ->
            BothAndDiffer(MatchStatus(old), MatchStatus(newStr))
      [] name = "stage_change" ->
            BothAndDiffer(MatchTag(old, "<stage>", "</stage>"),
                          MatchTag(newStr, "<stage>", "</stage>"))

\* the names of FORBIDDEN_PATTERNS, in order
FORBIDDEN_PATTERNS_Unstaged ==
    << "mode_change", "current_work_change", "work_status_change" >>

FORBIDDEN_PATTERNS ==
    << "mode_change", "current_work_change", "work_status_change",
       "stage_change" >>

\* checkEdit(oldStr, newStr): the first pattern that detects the edit
checkEdit(oldStr, newStr) ==
    LET detected == { k \in 1..Len(FORBIDDEN_PATTERNS) :
                         Detect(FORBIDDEN_PATTERNS[k], oldStr, newStr) }
    IN  IF detected = {} THEN [blocked |-> FALSE, pattern |-> ""]
        ELSE [blocked |-> TRUE,
              pattern |-> FORBIDDEN_PATTERNS[CHOOSE k \in detected :
                                                \A g \in detected : k <= g]]

\* file_path.endsWith('CLAUDE.md'), for the paths of the model
EndsWithClaudeMd(path) == path \in { "/repo/CLAUDE.md", "/repo/docs/OLD-CLAUDE.md" }

\* the fragments an Edit or a Write is expressed with
ModeTag(value) == << "<mode>", value, "</mode>" >>
StageTag(value) == << "<stage>", value, "</stage>" >>
WorkSection(item) == << "<current_work>", item, "</current_work>" >>
StatusLine(value) == << "Status: ", value >>

Fragments ==
    { <<>>, << "mission" >>, << "discovery" >>, << "speed" >>, << "done" >>,
      ModeTag("discovery"), ModeTag("speed"),
      StageTag("discovery"), StageTag("speed"),
      WorkSection("a"), WorkSection("b"),
      StatusLine("open"), StatusLine("done"),
      ModeTag("discovery") \o WorkSection("a") }

\* the CLAUDE.md on disk: missing, without any of the protected parts, or
\* with all of them
NoFile == [exists |-> FALSE, content |-> <<>>]
FileOf(content) == [exists |-> TRUE, content |-> content]

Files ==
    { NoFile, FileOf(<< "mission" >>),
      FileOf(ModeTag("discovery") \o StageTag("discovery")
             \o << "<current_work>", "a", "Status: ", "open", "</current_work>" >>
             \o << "mission" >>) }

Paths == { "/repo/src/index.js", "/repo/CLAUDE.md", "/repo/docs/OLD-CLAUDE.md" }

\* what the hook reads from stdin: text that is not JSON, JSON without a
\* tool_input, and tool calls; <<>> is a property that is absent
HookInput(tool_name, file_path, old_string, new_string, content) ==
    [parses |-> TRUE, tool_name |-> tool_name,
     tool_input |-> Some([file_path |-> file_path, old_string |-> old_string,
                          new_string |-> new_string, content |-> content])]

Unparseable == [parses |-> FALSE, tool_name |-> "", tool_input |-> None]
NoToolInput == [parses |-> TRUE, tool_name |-> "Edit", tool_input |-> None]

Optional(values) == { None } \cup { Some(v) : v \in values }

HookInputs ==
    { Unparseable, NoToolInput }
    \cup { HookInput("Edit", file_path, old_string, new_string, None) :
              file_path \in Optional(Paths),
              old_string \in Optional(Fragments),
              new_string \in Optional(Fragments) }
    \cup { HookInput(tool_name, file_path, None, None, content) :
              tool_name \in { "Write", "Read" },
              file_path \in Optional(Paths),
              content \in Optional(Fragments) }

\* the try block of the stdin end handler: the decision it reaches, or
\* threw when an exception leaves it
Decided(decision) == [threw |-> FALSE, decision |-> decision]
HookThrew == [threw |-> TRUE, decision |-> ""]

\* checkEdit and the decision taken from its result; old.match and
\* newStr.match throw on undefined
Checked(oldContent, newContent) ==
    IF oldContent = None \/ newContent = None THEN HookThrew
    ELSE IF checkEdit(oldContent[1], newContent[1]).blocked
         THEN Decided("deny") ELSE Decided("allow")

TryBlock(hookInput, file) ==
    IF ~ hookInput.parses THEN HookThrew                 \* JSON.parse
    ELSE IF hookInput.tool_input = None THEN HookThrew   \* undefined.file_path
    ELSE LET tool_input == hookInput.tool_input[1]
         IN  IF tool_input.file_path = None
                \/ ~ EndsWithClaudeMd(tool_input.file_path[1])
             THEN Decided("allow")
             ELSE IF hookInput.tool_name = "Edit"
                  THEN Checked(tool_input.old_string, tool_input.new_string)
                  ELSE IF hookInput.tool_name = "Write"
                       THEN IF ~ file.exists THEN Decided("allow")
                            ELSE Checked(Some(file.content), tool_input.content)
                       ELSE Decided("allow")

\* the handler with a catch block that denies
HookRun_FailClosed(hookInput, file) ==
    LET tried == TryBlock(hookInput, file)
    IN  [stdout |-> << IF tried.threw THEN "deny" ELSE tried.decision >>,
         status |-> Some(0)]

\* the stdin end handler: what allowEdit or denyEdit print before
\* process.exit(0); the catch block allows
HookRun(hookInput, file) ==
    LET tried == TryBlock(hookInput, file)
    IN  [stdout |-> << IF tried.threw THEN "allow" ELSE tried.decision >>,
         status |-> Some(0)]

\* the index of the first occurrence of part in text, 0 when there is none
FirstAt(text, part) ==
    LET hits == { i \in 1..(Len(text) - Len(part) + 1) :
                     Slice(text, i, i + Len(part) - 1) = part }
    IN  IF hits = {} THEN 0 ELSE CHOOSE h \in hits : \A g \in hits : h <= g

\* the file as the permitted tool call leaves it: Edit replaces old_string
\* by new_string where it first occurs, Write stores content
FileAfter(hookInput, file) ==
    IF hookInput.tool_input = None THEN file
    ELSE LET tool_input == hookInput.tool_input[1]
         IN  IF hookInput.tool_name = "Write" /\ tool_input.content # None
             THEN FileOf(tool_input.content[1])
             ELSE IF /\ hookInput.tool_name = "Edit" /\ file.exists
                     /\ tool_input.old_string # None
                     /\ tool_input.new_string # None
                     /\ tool_input.old_string[1] # <<>>
                     /\ FirstAt(file.content, tool_input.old_string[1]) > 0
                  THEN LET at == FirstAt(file.content, tool_input.old_string[1])
                       IN  FileOf(Slice(file.content, 1, at - 1)
                                  \o tool_input.new_string[1]
                                  \o Slice(file.content,
                                           at + Len(tool_input.old_string[1]),
                                           Len(file.content)))
                  ELSE file

InitHook ==
    /\ pc = "stdin"
    /\ args \in HookInputs
    /\ schema \in Files
    /\ body = schema
    /\ ret = [stdout |-> <<>>, status |-> None]
    /\ validation = NoValidation
    /\ containers = <<>>
    /\ window = NoWindow

\* stdin ends: the handler decides and the process exits
StdinEnd ==
    /\ pc = "stdin"
    /\ ret' = HookRun(args, schema)
    /\ pc' = "exited"
    /\ UNCHANGED << schema, validation, body, containers, window, args >>

\* the tool call the hook allowed is carried out on the file at file_path
ToolCall ==
    /\ pc = "exited"
    /\ ret.stdout = << "allow" >>
    /\ args.tool_input # None
    /\ args.tool_input[1].file_path = Some("/repo/CLAUDE.md")
    /\ body' = FileAfter(args, schema)
    /\ pc' = "applied"
    /\ UNCHANGED << schema, validation, containers, window, args, ret >>

NextHook == StdinEnd \/ ToolCall

SpecHook == InitHook /\ [][NextHook]_vars

(***************************************************************************)
(* Properties of the hook.                                                 *)
(***************************************************************************)
HookExited == pc # "stdin"

\* the decisions the hook has printed
Decisions == ret.stdout

\* the tool call names a file_path that ends in CLAUDE.md
OnClaudeMd ==
    /\ args.parses /\ args.tool_input # None
    /\ args.tool_input[1].file_path # None
    /\ EndsWithClaudeMd(args.tool_input[1].file_path[1])

\* the old and the new text the hook compares: the fragments of an Edit,
\* the file on disk and the content of a Write
OldText == IF args.tool_name = "Edit" THEN args.tool_input[1].old_string
           ELSE Some(schema.content)
NewText == IF args.tool_name = "Edit" THEN args.tool_input[1].new_string
           ELSE args.tool_input[1].content

\* the hook compares an old with a new text
Compared ==
    /\ OnClaudeMd
    /\ \/ args.tool_name = "Edit"
       \/ args.tool_name = "Write" /\ schema.exists
    /\ OldText # None /\ NewText # None

ModeOf(text) == MatchTag(text, "<mode>", "</mode>")
StageOf(text) == MatchTag(text, "<stage>", "</stage>")

\* the edit matches one of the patterns the claim lists
Forbidden(old, new) ==
    \/ ModeOf(old) # None /\ ModeOf(new) # None /\ ModeOf(old) # ModeOf(new)
    \/ MatchWork(old) # MatchWork(new)
    \/ /\ MatchStatus(old) # None /\ MatchStatus(new) # None
       /\ MatchStatus(old) # MatchStatus(new)
    \/ StageOf(old) # None /\ StageOf(new) # None /\ StageOf(old) # StageOf(new)

\* C25: an Edit or Write whose file_path does not end in CLAUDE.md is
\* always allowed; for a CLAUDE.md edit the hook blocks when the <mode>
\* value differs between old and new, when a <current_work> section is
\* added, removed or changed, when the Status: value differs or when the
\* <stage> value differs, and allows every edit matching none of these.
C25_DecisionFollowsPatterns ==
    HookExited =>
       /\ (/\ args.parses /\ args.tool_input # None
           /\ args.tool_name \in { "Edit", "Write" }
           /\ ~ OnClaudeMd) => Decisions = << "allow" >>
       /\ Compared =>
             Decisions = << IF Forbidden(OldText[1], NewText[1])
                            THEN "deny" ELSE "allow" >>

\* an Edit of CLAUDE.md that changes the <stage> value and nothing else,
\* denied
C25_Witness ==
    /\ HookExited /\ Compared /\ args.tool_name = "Edit"
    /\ StageOf(OldText[1]) = Some(<< "discovery" >>)
    /\ StageOf(NewText[1]) = Some(<< "speed" >>)
    /\ Decisions = << "deny" >>

\* C26: every invocation of the hook emits exactly one permission decision,
\* allow or deny, and exits with status 0; the hook fails open: input that
\* cannot be parsed, an unknown tool name and a Write to a CLAUDE.md that
\* does not exist yet all yield allow.
C26_OneDecisionFailOpen ==
    /\ pc = "stdin" => Decisions = <<>> /\ ret.status = None
    /\ HookExited =>
          /\ Len(Decisions) = 1
          /\ Decisions[1] \in { "allow", "deny" }
          /\ ret.status = Some(0)
          /\ ~ args.parses => Decisions = << "allow" >>
          /\ (args.parses /\ args.tool_name \notin { "Edit", "Write" })
                => Decisions = << "allow" >>
          /\ (OnClaudeMd /\ args.tool_name = "Write" /\ ~ schema.exists)
                => Decisions = << "allow" >>

\* input that is not JSON: the hook has exited with the one decision allow
C26_Witness ==
    /\ HookExited /\ ~ args.parses
    /\ Decisions = << "allow" >> /\ ret.status = Some(0)

\* C27: the hook blocks every direct mode change: no Edit or Write on
\* CLAUDE.md that the hook allowed leaves the file with a <mode> value other
\* than the one it had, whatever old_string / new_string fragment the Edit is
\* expressed with.
C27_ModeNeverChangesDirectly ==
    (/\ pc = "applied"
     /\ ModeOf(schema.content) # None
     /\ ModeOf(body.content) # None)
        => ModeOf(body.content) = ModeOf(schema.content)

(***************************************************************************)
(* The grey stretch between consecutive sections, the exit timers of the   *)
(* cards and the pairing of sections with their elements.                  *)
(***************************************************************************)
\* the viewport midpoint lies between the centres of sections i and i + 1
BetweenCentres(i) ==
    LET above == RectNow(i)
        below == RectNow(i + 1)
    IN  /\ 2 * above.top + above.height <= window.innerHeight
        /\ 2 * below.top + below.height >= window.innerHeight

\* neither section i nor section i + 1 is given an opacity above 0
GreyNow(i) ==
    /\ BetweenCentres(i)
    /\ ~ VisibleAt(i, window.scrollY)
    /\ ~ VisibleAt(i + 1, window.scrollY)

\* twice windowHeight * GREY_SPACE_BETWEEN
GreySpace2(windowHeight) == (150 * windowHeight) \div 100

\* C28: consistent grey space: for consecutive sections with heights from
\* calculateSectionHeight, the pair ending with the last section included,
\* the scroll distance over which neither has an opacity above 0 is
\* GREY_SPACE_BETWEEN of the viewport height: the centres of the two
\* sections are 2 * fadeZone + GREY_SPACE_BETWEEN apart, so wherever the
\* page is grey the distances to the two centres add up to that.
C28_ConsistentGreySpace ==
    Ticked =>
       \A i \in SectionIndices :
          (i + 1 \in SectionIndices /\ GreyNow(i))
             => DistanceNow2(i) + DistanceNow2(i + 1)
                   = 2 * FadeNow2 + GreySpace2(window.innerHeight)

\* the challenge-cards containers of the page
CardsContainers == { k \in 1..Len(body) : IsCards(body[k]) }

\* C29: under every interleaving of scroll ticks and exit timers a
\* challenge-cards container carries cards-exit only while it also carries
\* section-active, and at most one exit timer is pending for it, so that an
\* exit comes from the most recent trigger only and a timer whose trigger
\* was reset never affects a later replay.
C29_ExitOnlyWhileActive ==
    \A k \in CardsContainers :
       /\ body[k].cardsExit => body[k].sectionActive
       /\ body[k].timers <= 1

\* backgrounds[index] and contents[index] as the callback looks them up
BackgroundAt(i) == SectionElements(body, containers, i).bg
ContentAt(i) == SectionElements(body, containers, i).content

\* C30: for every scene accepted by validateSchema and built by
\* buildAllSections, the background and the content element the callback
\* pairs with section i by position belong to section i, so that no tick
\* for section i styles an element of another section; this holds as well
\* for sections with no background layer or with several.
C30_ElementsPairedWithOwnSection ==
    (Ticked /\ validateSchema(schema).valid) =>
       \A i \in SectionIndices :
          /\ BackgroundAt(i) # 0
                => body[BackgroundAt(i)].section = containers[i].id
          /\ ContentAt(i) # 0
                => body[ContentAt(i)].section = containers[i].id

====
